---- MODULE Spec2Model ----
(***************************************************************************)
(* Model of the bitrate-convert pipeline scripts                           *)
(*   src/s3-transcode-upload.mjs          (transcode + Drive upload +      *)
(*                                         duplicate scan / resolve)       *)
(*   src/s3-transcode-download-upload.mjs (transfer-only variant)          *)
(*   src/unnamed/part_000                 (transcode variant)              *)
(*                                                                         *)
(* The module holds several specifications over one set of variables:      *)
(*   SpecPart    - work list parsing, sharding and the driver loop         *)
(*   SpecScan    - recursive paginated duplicate scan                      *)
(*   SpecResolve - handleDuplicates: refresh, strategy, batch mutation     *)
(*   Spec        - processFile, the per-item pipeline, under its driver    *)
(* A specification leaves the variables of the other parts at their idle   *)
(* values.                                                                 *)
(***************************************************************************)
EXTENDS Integers, Sequences, FiniteSets, TLC

VARIABLES
  \* ---- work list partitioner and driver loop (transcodeFile / main)
  fileContent,        \* text of id_list.txt, a sequence of characters
  totalInstances,     \* parseInt(args[1])
  currentInstance,    \* parseInt(args[0])
  allFiles,           \* the normalized work list
  keyListToProcess,   \* this instance's share of it
  loopI,              \* the driver loop's i
  processedKeys,      \* the keys handed to processFile, in call order
  outcome             \* "start" | "running" | "completed" | "listReadError" | "scanned"

VARIABLES
  \* ---- duplicate scan (scanGoogleDriveForDuplicates / getAllFilesInFolder)
  driveTree,          \* the destination hierarchy under the root folder:
                      \* node id -> [name, isFolder, parent]
  scanStack,          \* the call stack of getAllFilesInFolder, innermost last
  scanFiles,          \* what the outermost getAllFilesInFolder returned
  scanPc,             \* "idle" | "listing" | "listed" | "returnedMap" | "returnedNull"
  duplicateMap,       \* the map scanGoogleDriveForDuplicates returned
  failedFolders,      \* folders for which a files.list call threw
  pageSplit           \* some folder's children came in more than one page

VARIABLES
  \* ---- batch mutation (batchDeleteFiles / batchTrashFiles)
  batchPc,            \* "idle" | "call" | "issue" | "await" | "returned"
  batchOp,            \* "delete" | "trash"
  fileIds,            \* the ids handed to the batch function
  batchI,             \* the batch loop's i
  outstanding,        \* ids of the requests in flight
  batchResults,       \* the settled requests of the current batch, counted
                      \* by status (the tally does not depend on their order)
  results,            \* the tally built so far / returned
  requests            \* every mutation request sent to the store, in order

VARIABLES
  \* ---- duplicate resolution (handleDuplicates and the strategies)
  resPc,              \* position in handleDuplicates
  handledMap,         \* handleDuplicates' duplicateMap (replaced by a refresh)
  refreshedMap,       \* refreshDuplicateMap's refreshedMap
  refreshG,           \* refresh: index of the group being verified
  refreshK,           \* refresh: instances of that group already verified
  foundAbsent,        \* ids the store reported as not found during the refresh
  keptUnverified,     \* ids whose check timed out or failed during the refresh
  strategy,           \* the option typed at 'Select option (1-5)'
  skipVerification,   \* deleteAllDuplicatesExceptFirst's argument
  confirmAnswer,      \* the answer to the WARNING prompt, "unasked" before it
  renameTargets,      \* renameDuplicates: the records still to rename
  renamedCount,       \* renameDuplicates' renamedCount
  strategyResult      \* what the delete / trash strategy returned

VARIABLES
  \* ---- the per-item pipeline (processFile) and the stores it talks to
  drive,              \* TRUE when transcodeFile's drive client is non-null
  bucket,             \* the converted keys present in the S3 bucket
  driveFolders,       \* folders directly under the Drive root: [id, name]
  driveFiles,         \* untrashed Drive files: [id, parent, name]
  nextId,             \* the id Drive gives to the next created file or folder
  localFiles,         \* local path -> "absent" | "whole" | "partial"
  errorLog,           \* error_transcode.txt: [exists, lines]
  pc,                 \* position inside processFile, "idle" between calls
  inputKey,           \* processFile's INPUT_KEY
  cameraFolderId,     \* what findOrCreateFolder returned, NoFolder for null
  downloadedFile,     \* processFile's downloadedFile
  transcodeSuccess,   \* processFile's transcodeSuccess
  item,               \* ledger of the call in progress: what existed before
                      \* it, the requests it issued, the operations that failed
  itemEnds,           \* the ledgers of the finished calls, in call order
  faults              \* number of failures the environment has injected

VARIABLES
  \* ---- the transcode monitor (runFFmpegWithProgress)
  ffmpegState,        \* "idle" | "running" | "resolved" | "rejected"
  now,                \* the last value Date.now() returned, in ms
  lastProgressUpdate, \* runFFmpegWithProgress's lastProgressUpdate, in ms
  duration,           \* parsed total duration, in 1/100 s (0: not parsed)
  currentTime,        \* parsed output position, in 1/100 s
  speed,              \* parsed speed multiplier, in 1/100 (0: not parsed)
  chunkCount,         \* output chunks handled so far
  progressPipe,       \* ffmpeg was spawned with "-progress pipe:1"
  snapshots           \* the progress snapshots printed, in order

VARIABLES
  \* ---- two shard processes working on the same source key
  shardPc,            \* where each shard's processFile call stands
  shardFolderId,      \* each shard's cameraFolderId
  \* ---- termination and re-run of the pipeline process
  restarts,           \* how many times the process was terminated and re-run
  logCalls,           \* the calls made on error_transcode.txt, in order
  scanForDuplicates   \* args[3] === 'scan-duplicates'

partVars == <<fileContent, totalInstances, currentInstance, allFiles,
              keyListToProcess, loopI, processedKeys, outcome>>

scanVars == <<driveTree, scanStack, scanFiles, scanPc, duplicateMap,
              failedFolders, pageSplit>>

batchVars == <<batchPc, batchOp, fileIds, batchI, outstanding, batchResults,
               results, requests>>

resVars == <<resPc, handledMap, refreshedMap, refreshG, refreshK, foundAbsent,
             keptUnverified,
             strategy, skipVerification, confirmAnswer, renameTargets,
             renamedCount, strategyResult>>

pipeVars == <<drive, bucket, driveFolders, driveFiles, nextId, localFiles,
              errorLog, pc, inputKey, cameraFolderId, downloadedFile,
              transcodeSuccess, item, itemEnds, faults>>

progVars == <<ffmpegState, now, lastProgressUpdate, duration, currentTime,
              speed, chunkCount, progressPipe, snapshots>>

raceVars == <<shardPc, shardFolderId>>

rerunVars == <<restarts, logCalls, scanForDuplicates>>

vars == <<partVars, scanVars, batchVars, resVars, pipeVars, progVars,
          raceVars, rerunVars>>

-----------------------------------------------------------------------------
(* Bounds of the model *)

MaxContentLen == 5     \* longest id_list.txt text enumerated
MaxInstances == 3      \* largest totalInstances / currentInstance enumerated
MaxNodes == 4          \* most files and folders below the Drive root folder
MaxPage == 2           \* most entries the store puts in one page of a listing
MaxFiles == 3          \* most file records in a map handed to handleDuplicates
MaxTargets == 11       \* most ids handed to a batch function on its own

-----------------------------------------------------------------------------
(* Work list parsing: fileContent.split(',').map(trim).filter(nonempty) *)

Chars == {"a", "b", ",", " "}

ContentSet == UNION {[1..n -> Chars] : n \in 0..MaxContentLen}

\* String.prototype.split(','): always at least one token, empty ones kept
RECURSIVE SplitComma(_)
SplitComma(s) ==
  IF \A k \in 1..Len(s) : s[k] # ","
    THEN <<s>>
    ELSE LET k == CHOOSE c \in 1..Len(s) :
                    s[c] = "," /\ \A j \in 1..(c - 1) : s[j] # ","
         IN <<SubSeq(s, 1, k - 1)>> \o SplitComma(SubSeq(s, k + 1, Len(s)))

\* String.prototype.trim(): leading and trailing white space removed
Trim(s) ==
  IF \A k \in 1..Len(s) : s[k] = " "
    THEN <<>>
    ELSE LET first == CHOOSE f \in 1..Len(s) :
                        s[f] # " " /\ \A j \in 1..(f - 1) : s[j] = " "
             last == CHOOSE l \in 1..Len(s) :
                        s[l] # " " /\ \A j \in (l + 1)..Len(s) : s[j] = " "
         IN SubSeq(s, first, last)

NonEmpty(id) == Len(id) > 0

ParseWorkList(content) ==
  LET tokens == SplitComma(content)
      trimmed == [k \in 1..Len(tokens) |-> Trim(tokens[k])]
  IN SelectSeq(trimmed, NonEmpty)

-----------------------------------------------------------------------------
(* Sharding: allFiles.filter((_, index) => index % totalInstances ===      *)
(* currentInstance), index 0-based.  The JavaScript remainder takes the    *)
(* sign of the dividend (index >= 0 here) and is NaN for a zero divisor;   *)
(* NaN is strictly equal to nothing.                                       *)

Abs(n) == IF n < 0 THEN -n ELSE n

\* a comparison slip: every residue up to the instance's own is taken
SelectsIndexAtMost(index, total, current) ==
  IF total = 0 THEN FALSE ELSE (index % Abs(total)) <= current

SelectsIndex(index, total, current) ==
  IF total = 0 THEN FALSE ELSE (index % Abs(total)) = current

\* the 0-based positions of a list of length n kept by the filter, ascending
RECURSIVE SelectedIndexes(_, _, _, _)
SelectedIndexes(from, n, total, current) ==
  IF from >= n THEN <<>>
  ELSE (IF SelectsIndex(from, total, current) THEN <<from>> ELSE <<>>)
         \o SelectedIndexes(from + 1, n, total, current)

\* a share collected as a set of keys: a repeated key is kept once
FilterByInstanceDedup(files, total, current) ==
  LET idx == SelectedIndexes(0, Len(files), total, current)
      firstSeen == SelectSeq(idx, LAMBDA p :
                     \A k \in 1..Len(idx) : idx[k] < p => files[idx[k] + 1] # files[p + 1])
  IN [k \in 1..Len(firstSeen) |-> files[firstSeen[k] + 1]]

FilterByInstance(files, total, current) ==
  LET idx == SelectedIndexes(0, Len(files), total, current)
  IN [k \in 1..Len(idx) |-> files[idx[k] + 1]]

-----------------------------------------------------------------------------
(* The driver: transcodeFile / main *)

ScanIdle ==
  /\ driveTree = <<>>
  /\ scanStack = <<>>
  /\ scanFiles = <<>>
  /\ scanPc = "idle"
  /\ duplicateMap = <<>>
  /\ failedFolders = {}
  /\ pageSplit = FALSE

BatchIdle ==
  /\ batchPc = "idle"
  /\ batchOp = "none"
  /\ fileIds = <<>>
  /\ batchI = 0
  /\ outstanding = <<>>
  /\ batchResults = [st \in {"success", "notFound", "permissionDenied", "error"} |-> 0]
  /\ results = [success |-> 0, notFound |-> 0, permissionDenied |-> 0]
  /\ requests = <<>>

ResIdle ==
  /\ resPc = "idle"
  /\ handledMap = <<>>
  /\ refreshedMap = <<>>
  /\ refreshG = 0
  /\ refreshK = 0
  /\ foundAbsent = {}
  /\ keptUnverified = {}
  /\ strategy = "none"
  /\ skipVerification = FALSE
  /\ confirmAnswer = "unasked"
  /\ renameTargets = <<>>
  /\ renamedCount = 0
  /\ strategyResult = [deletedCount |-> 0, permissionErrors |-> 0, notFoundErrors |-> 0]

\* null, for a folder id
NoFolder == -1

\* no processFile call is in progress
NoItem == [key |-> <<>>]

PipeIdle ==
  /\ drive = FALSE
  /\ bucket = {}
  /\ driveFolders = {}
  /\ driveFiles = {}
  /\ nextId = 1
  /\ localFiles = <<>>
  /\ errorLog = [exists |-> FALSE, lines |-> <<>>]
  /\ pc = "idle"
  /\ inputKey = <<>>
  /\ cameraFolderId = NoFolder
  /\ downloadedFile = FALSE
  /\ transcodeSuccess = FALSE
  /\ item = NoItem
  /\ itemEnds = <<>>
  /\ faults = 0

Shards == {1, 2}

\* no shards are racing
RaceIdle ==
  /\ shardPc = [p \in Shards |-> "idle"]
  /\ shardFolderId = [p \in Shards |-> NoFolder]

\* the process has not been terminated
RerunIdle == restarts = 0 /\ logCalls = <<>> /\ scanForDuplicates = FALSE

\* no transcode subprocess is being monitored
ProgIdle ==
  /\ ffmpegState = "idle"
  /\ now = 0
  /\ lastProgressUpdate = 0
  /\ duration = 0
  /\ currentTime = 0
  /\ speed = 0
  /\ chunkCount = 0
  /\ progressPipe = FALSE
  /\ snapshots = <<>>

PartIdle ==
  /\ fileContent = <<>>
  /\ totalInstances = 1
  /\ currentInstance = 0
  /\ allFiles = <<>>
  /\ keyListToProcess = <<>>
  /\ loopI = 0
  /\ processedKeys = <<>>
  /\ outcome = "idle"

InitPart ==
  /\ fileContent \in ContentSet
  /\ totalInstances \in (-1)..MaxInstances
  /\ currentInstance \in (-1)..MaxInstances
  /\ allFiles = <<>>
  /\ keyListToProcess = <<>>
  /\ loopI = 0
  /\ processedKeys = <<>>
  /\ outcome = "start"
  /\ ScanIdle
  /\ BatchIdle
  /\ ResIdle
  /\ PipeIdle
  /\ ProgIdle
  /\ RaceIdle
  /\ RerunIdle

\* readFile('id_list.txt') succeeds: parse, shard, enter the loop
ReadList ==
  /\ outcome = "start"
  /\ allFiles' = ParseWorkList(fileContent)
  /\ keyListToProcess' = FilterByInstance(allFiles', totalInstances, currentInstance)
  /\ loopI' = 0
  /\ outcome' = "running"
  /\ UNCHANGED <<fileContent, totalInstances, currentInstance, processedKeys>>
  /\ UNCHANGED <<scanVars, batchVars, resVars, pipeVars, progVars, raceVars, rerunVars>>

\* readFile('id_list.txt') throws: caught by the driver's catch, run ends
ReadListFails ==
  /\ outcome = "start"
  /\ outcome' = "listReadError"
  /\ UNCHANGED <<fileContent, totalInstances, currentInstance, allFiles,
                 keyListToProcess, loopI, processedKeys>>
  /\ UNCHANGED <<scanVars, batchVars, resVars, pipeVars, progVars, raceVars, rerunVars>>

\* one turn of the loop: await processFile(client, drive, keyListToProcess[i], ...)
ProcessNextKey ==
  /\ outcome = "running"
  /\ loopI < Len(keyListToProcess)
  /\ processedKeys' = Append(processedKeys, keyListToProcess[loopI + 1])
  /\ loopI' = loopI + 1
  /\ UNCHANGED <<fileContent, totalInstances, currentInstance, allFiles,
                 keyListToProcess, outcome>>
  /\ UNCHANGED <<scanVars, batchVars, resVars, pipeVars, progVars, raceVars, rerunVars>>

\* the loop is over: 'All processing completed for instance'
FinishRun ==
  /\ outcome = "running"
  /\ pc = "idle"
  /\ loopI >= Len(keyListToProcess)
  /\ outcome' = "completed"
  /\ UNCHANGED <<fileContent, totalInstances, currentInstance, allFiles,
                 keyListToProcess, loopI, processedKeys>>
  /\ UNCHANGED <<scanVars, batchVars, resVars, pipeVars, progVars, raceVars, rerunVars>>

NextPart == ReadList \/ ReadListFails \/ ProcessNextKey \/ FinishRun

SpecPart == InitPart /\ [][NextPart]_vars

-----------------------------------------------------------------------------
(* Properties of the partitioner and the driver loop (SpecPart) *)

ListWasRead == outcome \in {"running", "completed"}

\* 0-based positions of allFiles that instance j selects, as the code selects them
PositionsOf(j) ==
  LET idx == SelectedIndexes(0, Len(allFiles), totalInstances, j)
  IN {idx[k] : k \in 1..Len(idx)}

Owners(p) == {j \in 0..(totalInstances - 1) : p \in PositionsOf(j)}

\* the lists of all instances merged back by original position
MergedShares ==
  [q \in 1..Len(allFiles) |->
     LET j == CHOOSE o \in Owners(q - 1) : TRUE
         idx == SelectedIndexes(0, Len(allFiles), totalInstances, j)
         k == CHOOSE r \in 1..Len(idx) : idx[r] = q - 1
     IN FilterByInstance(allFiles, totalInstances, j)[k]]

RECURSIVE SumLen(_, _)
SumLen(j, total) ==
  IF j >= total THEN 0
  ELSE Len(FilterByInstance(allFiles, total, j)) + SumLen(j + 1, total)

\* C6: for every work list and every totalInstances >= 1 the shares of the
\* instances 0..totalInstances-1 are pairwise disjoint as sets of positions,
\* cover every position exactly once, and merged in original order give the
\* input list back.
C6_SharesDisjointAndCovering ==
  (ListWasRead /\ totalInstances >= 1) =>
    /\ \A p \in 0..(Len(allFiles) - 1) : Cardinality(Owners(p)) = 1
    /\ SumLen(0, totalInstances) = Len(allFiles)
    /\ MergedShares = allFiles

C6_Witness ==
  /\ outcome = "completed"
  /\ totalInstances = 2
  /\ currentInstance = 1
  /\ Len(allFiles) = 3
  /\ Len(processedKeys) = 1

\* the share the specification describes: positions p with
\* p mod totalInstances = currentInstance, in ascending order
ExpectedPositions ==
  {p \in 0..(Len(allFiles) - 1) : p % totalInstances = currentInstance}

ExpectedShare ==
  [k \in 1..Cardinality(ExpectedPositions) |->
     allFiles[currentInstance + (k - 1) * totalInstances + 1]]

\* C7: the list an instance processes is the order-preserving subsequence of
\* the normalized work list at the positions p with p mod totalInstances =
\* currentInstance (repeated keys kept), and processFile is called on those
\* items in that order.
C7_ShareIsOrderedSubsequence ==
  (ListWasRead /\ totalInstances >= 1) =>
    /\ keyListToProcess = ExpectedShare
    /\ processedKeys = SubSeq(keyListToProcess, 1, loopI)
    /\ (outcome = "completed" => processedKeys = keyListToProcess)

C7_Witness ==
  /\ outcome = "completed"
  /\ fileContent = <<"a", ",", "b", ",", "a">>
  /\ allFiles = << <<"a">>, <<"b">>, <<"a">> >>
  /\ totalInstances = 2
  /\ currentInstance = 0
  /\ processedKeys = << <<"a">>, <<"a">> >>

ValidConfig ==
  /\ totalInstances >= 1
  /\ currentInstance >= 0
  /\ currentInstance < totalInstances

\* C8: with totalInstances < 1 or currentInstance outside
\* [0, totalInstances) the run fails with a configuration error before any
\* item is processed: it never enters the loop and never completes normally.
C8_InvalidConfigAborts ==
  ~ValidConfig => (outcome \notin {"running", "completed"} /\ processedKeys = <<>>)

-----------------------------------------------------------------------------
(* The destination hierarchy.  Node 0 is the root folder                   *)
(* (GOOGLE_DRIVE_FOLDER_ID); node i > 0 is a file or a folder whose parent *)
(* is the root or a folder with a smaller id.  A listing returns a         *)
(* folder's children in ascending id.                                      *)

RootFolder == 0

FileNames == {"x", "y"}

FolderName == "d"

NodeChoices(t) ==
  LET parents == {RootFolder} \cup {i \in 1..Len(t) : t[i].isFolder}
  IN {[name |-> nm, isFolder |-> FALSE, parent |-> pa] :
        nm \in FileNames, pa \in parents}
     \cup {[name |-> FolderName, isFolder |-> TRUE, parent |-> pa] : pa \in parents}

RECURSIVE TreesOfSize(_)
TreesOfSize(n) ==
  IF n = 0 THEN {<<>>}
  ELSE UNION {{Append(t, r) : r \in NodeChoices(t)} : t \in TreesOfSize(n - 1)}

TreeSet == UNION {TreesOfSize(n) : n \in 0..MaxNodes}

NodeIds(tree) == 1..Len(tree)

\* files.list(q: "'folderId' in parents and trashed=false"): the whole listing
Children(tree, folderId) ==
  SelectSeq([i \in 1..Len(tree) |-> i], LAMBDA i : tree[i].parent = folderId)

-----------------------------------------------------------------------------
(* getAllFilesInFolder: one frame per active call *)

NewFrame(folderId) ==
  [folder |-> folderId,    \* folderId
   acc |-> <<>>,           \* allFiles
   pos |-> 0,              \* entries of the listing already returned (pageToken)
   more |-> FALSE,         \* pageToken is set
   page |-> <<>>,          \* entries of the last response not yet visited
   phase |-> "list"]       \* "list": about to call files.list; "loop": in the for

Top == scanStack[Len(scanStack)]

SetTop(stack, frame) == [stack EXCEPT ![Len(stack)] = frame]

Pop(stack) == SubSeq(stack, 1, Len(stack) - 1)

\* the caller assigns the subfolder's files over its own list
AfterSubfolderAssign(acc, subfolderFiles) == subfolderFiles

\* allFiles = allFiles.concat(subfolderFiles)
AfterSubfolder(acc, subfolderFiles) == acc \o subfolderFiles

\* the innermost call returns `result` to its caller
ReturnFromFolder(result) ==
  IF Len(scanStack) = 1
    THEN /\ scanStack' = <<>>
         /\ scanFiles' = result
         /\ scanPc' = "listed"
    ELSE /\ LET caller == scanStack[Len(scanStack) - 1]
            IN scanStack' = SetTop(Pop(scanStack),
                 [caller EXCEPT !.acc = AfterSubfolder(caller.acc, result)])
         /\ UNCHANGED <<scanFiles, scanPc>>

\* drive.files.list answers with the next page of the folder's children
ListPage ==
  /\ scanPc = "listing"
  /\ Top.phase = "list"
  /\ LET children == Children(driveTree, Top.folder)
         remaining == Len(children) - Top.pos
     IN \E cnt \in 0..MaxPage :
          /\ cnt <= remaining
          /\ (cnt = 0) = (remaining = 0)
          /\ scanStack' = SetTop(scanStack,
               [Top EXCEPT !.page = SubSeq(children, Top.pos + 1, Top.pos + cnt),
                           !.pos = Top.pos + cnt,
                           !.more = (Top.pos + cnt < Len(children)),
                           !.phase = "loop"])
          /\ pageSplit' = (pageSplit \/ Top.pos + cnt < Len(children))
  /\ UNCHANGED <<driveTree, scanFiles, scanPc, duplicateMap, failedFolders>>
  /\ UNCHANGED <<partVars, batchVars, resVars, pipeVars, progVars, raceVars, rerunVars>>

\* the catch returns an empty list
GatheredNothing(frame) == <<>>

\* the catch's `return allFiles`: what the call has so far
Gathered(frame) == frame.acc

\* drive.files.list throws: the catch returns what this call gathered so far
ListFails ==
  /\ scanPc = "listing"
  /\ Top.phase = "list"
  /\ failedFolders' = failedFolders \cup {Top.folder}
  /\ ReturnFromFolder(Gathered(Top))
  /\ UNCHANGED <<driveTree, duplicateMap, pageSplit>>
  /\ UNCHANGED <<partVars, batchVars, resVars, pipeVars, progVars, raceVars, rerunVars>>

\* for (const file of files): a non-folder entry is pushed
VisitFile ==
  /\ scanPc = "listing"
  /\ Top.phase = "loop"
  /\ Top.page # <<>>
  /\ ~driveTree[Head(Top.page)].isFolder
  /\ scanStack' = SetTop(scanStack,
       [Top EXCEPT !.acc = Append(Top.acc, Head(Top.page)),
                   !.page = Tail(Top.page)])
  /\ UNCHANGED <<driveTree, scanFiles, scanPc, duplicateMap, failedFolders, pageSplit>>
  /\ UNCHANGED <<partVars, batchVars, resVars, pipeVars, progVars, raceVars, rerunVars>>

\* for (const file of files): a folder entry starts a recursive call
VisitFolder ==
  /\ scanPc = "listing"
  /\ Top.phase = "loop"
  /\ Top.page # <<>>
  /\ driveTree[Head(Top.page)].isFolder
  /\ scanStack' = Append(SetTop(scanStack, [Top EXCEPT !.page = Tail(Top.page)]),
                         NewFrame(Head(Top.page)))
  /\ UNCHANGED <<driveTree, scanFiles, scanPc, duplicateMap, failedFolders, pageSplit>>
  /\ UNCHANGED <<partVars, batchVars, resVars, pipeVars, progVars, raceVars, rerunVars>>

\* while (pageToken): the page is done and a token was returned
NextPage ==
  /\ scanPc = "listing"
  /\ Top.phase = "loop"
  /\ Top.page = <<>>
  /\ Top.more
  /\ scanStack' = SetTop(scanStack, [Top EXCEPT !.phase = "list"])
  /\ UNCHANGED <<driveTree, scanFiles, scanPc, duplicateMap, failedFolders, pageSplit>>
  /\ UNCHANGED <<partVars, batchVars, resVars, pipeVars, progVars, raceVars, rerunVars>>

\* the page is done and no token was returned: return allFiles
FolderDone ==
  /\ scanPc = "listing"
  /\ Top.phase = "loop"
  /\ Top.page = <<>>
  /\ ~Top.more
  /\ ReturnFromFolder(Top.acc)
  /\ UNCHANGED <<driveTree, duplicateMap, failedFolders, pageSplit>>
  /\ UNCHANGED <<partVars, batchVars, resVars, pipeVars, progVars, raceVars, rerunVars>>

-----------------------------------------------------------------------------
(* scanGoogleDriveForDuplicates: the name -> occurrences map.  A JavaScript *)
(* object keeps its string keys in insertion order, so the map is a         *)
(* sequence of entries [name, instances].                                   *)

FileRecord(tree, id) ==
  [id |-> id, name |-> tree[id].name, parentId |-> tree[id].parent]

HasName(map, nm) == \E k \in 1..Len(map) : map[k].name = nm

EntryOf(map, nm) == CHOOSE k \in 1..Len(map) : map[k].name = nm

\* one turn of `for (const file of files)`: state is [map, duplicates]
AddFile(st, rec) ==
  IF ~HasName(st.map, rec.name)
    THEN [st EXCEPT !.map = Append(st.map, [name |-> rec.name, instances |-> <<rec>>])]
    ELSE LET k == EntryOf(st.map, rec.name)
             grown == Append(st.map[k].instances, rec)
         IN [map |-> [st.map EXCEPT ![k].instances = grown],
             duplicates |-> IF Len(grown) = 2
                              THEN Append(st.duplicates, rec.name)
                              ELSE st.duplicates]

RECURSIVE AddFiles(_, _)
AddFiles(files, st) ==
  IF files = <<>> THEN st
  ELSE AddFiles(Tail(files), AddFile(st, Head(files)))

\* the loop over `files`, from the empty fileMap and duplicates
BuildFileMap(files) == AddFiles(files, [map |-> <<>>, duplicates |-> <<>>])

\* `return fileMap`
ReturnedMap(st) == st.map

\* the files are in: build the map, return it or null
BuildMap ==
  /\ scanPc = "listed"
  /\ LET st == BuildFileMap([k \in 1..Len(scanFiles) |->
                                 FileRecord(driveTree, scanFiles[k])])
     IN IF Len(st.duplicates) > 0
          THEN /\ duplicateMap' = ReturnedMap(st)
               /\ scanPc' = "returnedMap"
          ELSE /\ duplicateMap' = <<>>
               /\ scanPc' = "returnedNull"
  /\ UNCHANGED <<driveTree, scanStack, scanFiles, failedFolders, pageSplit>>
  /\ UNCHANGED <<partVars, batchVars, resVars, pipeVars, progVars, raceVars, rerunVars>>

InitScan ==
  /\ driveTree \in TreeSet
  /\ scanStack = <<NewFrame(RootFolder)>>
  /\ scanFiles = <<>>
  /\ scanPc = "listing"
  /\ duplicateMap = <<>>
  /\ failedFolders = {}
  /\ pageSplit = FALSE
  /\ PartIdle
  /\ BatchIdle
  /\ ResIdle
  /\ PipeIdle
  /\ ProgIdle
  /\ RaceIdle
  /\ RerunIdle

NextScan ==
  \/ ListPage \/ ListFails \/ VisitFile \/ VisitFolder \/ NextPage \/ FolderDone
  \/ BuildMap

SpecScan == InitScan /\ [][NextScan]_vars

-----------------------------------------------------------------------------
(* Properties of the scan (SpecScan) *)

FilesReturned == scanPc \in {"listed", "returnedMap", "returnedNull"}

FilesOfTree == {i \in NodeIds(driveTree) : ~driveTree[i].isFolder}

Occurrences(seq, x) == Cardinality({k \in 1..Len(seq) : seq[k] = x})

\* C9: when no listing call fails, getAllFilesInFolder returns every
\* non-folder file of the tree exactly once and returns no folder, for every
\* tree shape and every placement of the page boundaries.
C9_EveryFileExactlyOnce ==
  (FilesReturned /\ failedFolders = {}) =>
    /\ \A i \in FilesOfTree : Occurrences(scanFiles, i) = 1
    /\ \A k \in 1..Len(scanFiles) : scanFiles[k] \in FilesOfTree

\* a finished scan without failures of a tree with a file two folders deep,
\* in which some folder's listing was cut by a page boundary
C9_Witness ==
  /\ scanPc = "listed"
  /\ failedFolders = {}
  /\ pageSplit
  /\ Len(scanFiles) >= 2
  /\ \E i \in FilesOfTree :
       /\ driveTree[i].parent # RootFolder
       /\ driveTree[driveTree[i].parent].parent # RootFolder

\* the files every active call and the finished scan hold
Held ==
  UNION {{scanStack[k].acc[j] : j \in 1..Len(scanStack[k].acc)} :
           k \in 1..Len(scanStack)}
    \cup {scanFiles[k] : k \in 1..Len(scanFiles)}

\* the node lies in a folder whose listing failed, or below one
RECURSIVE UnderFailed(_)
UnderFailed(i) ==
  LET pa == driveTree[i].parent IN
    IF pa \in failedFolders THEN TRUE
    ELSE IF pa = RootFolder THEN FALSE
    ELSE UnderFailed(pa)

\* C29: when a listing call fails for a folder, on whatever page, the call
\* returns what it gathered in that folder instead of throwing (nothing
\* gathered is lost, and the caller goes on), and the finished scan holds
\* exactly once every file that is not in or below a failed folder.
C29_FailureStaysInItsFolder ==
  /\ [][Held \subseteq Held']_vars
  /\ [][failedFolders' # failedFolders =>
          IF Len(scanStack) > 1
            THEN /\ scanPc' = "listing"
                 /\ Len(scanStack') = Len(scanStack) - 1
                 /\ scanStack'[Len(scanStack')].folder
                      = scanStack[Len(scanStack) - 1].folder
            ELSE scanPc' = "listed"]_vars
  /\ [](FilesReturned =>
          \A i \in FilesOfTree : ~UnderFailed(i) => Occurrences(scanFiles, i) = 1)

\* a finished scan in which the listing of a subfolder failed after its
\* first page: the file of that page and a root file listed after the
\* subfolder are both in the result
C29_Witness ==
  /\ scanPc = "listed"
  /\ RootFolder \notin failedFolders
  /\ \E f \in failedFolders :
       /\ \E k \in 1..Len(scanFiles) : driveTree[scanFiles[k]].parent = f
       /\ \E i \in FilesOfTree : driveTree[i].parent = f /\ Occurrences(scanFiles, i) = 0
       /\ \E k \in 1..Len(scanFiles) :
            driveTree[scanFiles[k]].parent = RootFolder /\ scanFiles[k] > f

\* C10: the map scanGoogleDriveForDuplicates returns holds a name only when
\* that name has at least 2 records.
C10_OnlyGroupsOfTwoOrMore ==
  scanPc = "returnedMap" =>
    \A k \in 1..Len(duplicateMap) : Len(duplicateMap[k].instances) >= 2

-----------------------------------------------------------------------------
(* batchDeleteFiles / batchTrashFiles.  The store answers a request with   *)
(* success or with an error whose message the catch handler inspects.      *)

BatchSize == 10

Responses == {"ok", "File not found", "insufficient permission", "other error"}

\* .then(() => 'success') / .catch: message.includes('File not found'),
\* else message.includes('permission'), else 'error'
Classify(response) ==
  CASE response = "ok" -> "success"
    [] response = "File not found" -> "notFound"
    [] response = "insufficient permission" -> "permissionDenied"
    [] OTHER -> "error"

EmptyTally == [success |-> 0, notFound |-> 0, permissionDenied |-> 0]

\* the `results` object each function starts from
InitialTally(op) ==
  IF op = "trash"
    THEN [success |-> 0, notFound |-> 0, permissionDenied |-> 0, otherErrors |-> 0]
    ELSE [success |-> 0, notFound |-> 0, permissionDenied |-> 0]

\* one turn of `for (const result of batchResults)`: the switch on the status
TallyOne(op, res, status) ==
  CASE status = "success" -> [res EXCEPT !.success = @ + 1]
    [] status = "notFound" -> [res EXCEPT !.notFound = @ + 1]
    [] status = "permissionDenied" -> [res EXCEPT !.permissionDenied = @ + 1]
    [] OTHER -> IF op = "trash"
                  THEN [res EXCEPT !.otherErrors = @ + 1]
                  ELSE res       \* batchDeleteFiles: default only logs

Statuses == {"success", "notFound", "permissionDenied", "error"}

NoResults == [st \in Statuses |-> 0]

\* the switch applied to the n results of one status
RECURSIVE TallyTimes(_, _, _, _)
TallyTimes(op, res, status, n) ==
  IF n = 0 THEN res
  ELSE TallyTimes(op, TallyOne(op, res, status), status, n - 1)

\* the loop `for (const result of batchResults)` over a whole batch
RECURSIVE TallyAll(_, _, _, _)
TallyAll(op, res, counted, todo) ==
  IF todo = {} THEN res
  ELSE LET st == CHOOSE x \in todo : TRUE
       IN TallyAll(op, TallyTimes(op, res, st, counted[st]), counted, todo \ {st})

Min(a, b) == IF a < b THEN a ELSE b

\* the slice loses its last element
BatchSliceShort(ids, i) == SubSeq(ids, i + 1, Min(i + BatchSize - 1, Len(ids)))

\* fileIds.slice(i, i + batchSize)
BatchSlice(ids, i) == SubSeq(ids, i + 1, Min(i + BatchSize, Len(ids)))

\* the wait ends as soon as one request has settled
AnySettled(pending) == Len(pending) < BatchSize

\* await Promise.all(promises): resolves when no request of the batch is pending
AllSettled(pending) == pending = <<>>

\* function entry: the empty list returns at once
BatchEnter ==
  /\ batchPc = "call"
  /\ IF Len(fileIds) = 0
       THEN /\ results' = EmptyTally
            /\ batchPc' = "returned"
       ELSE /\ results' = InitialTally(batchOp)
            /\ batchPc' = "issue"
  /\ batchI' = 0
  /\ UNCHANGED <<batchOp, fileIds, outstanding, batchResults, requests>>
  /\ UNCHANGED <<partVars, scanVars, resVars, pipeVars, progVars, raceVars, rerunVars>>

\* batch.map(fileId => drive.files.delete / update): every request of the
\* batch is sent before any answer is awaited
BatchIssue ==
  /\ batchPc = "issue"
  /\ LET batch == BatchSlice(fileIds, batchI)
     IN /\ outstanding' = outstanding \o batch
        /\ requests' = requests \o
             [k \in 1..Len(batch) |-> [op |-> batchOp, id |-> batch[k]]]
  /\ batchResults' = NoResults
  /\ batchPc' = "await"
  /\ UNCHANGED <<batchOp, fileIds, batchI, results>>
  /\ UNCHANGED <<partVars, scanVars, resVars, pipeVars, progVars, raceVars, rerunVars>>

\* one request settles: its .then / .catch turns the answer into a status
RequestSettles ==
  /\ batchPc = "await"
  /\ outstanding # <<>>
  /\ \E response \in Responses :
       batchResults' = [batchResults EXCEPT ![Classify(response)] = @ + 1]
  /\ outstanding' = Tail(outstanding)
  /\ UNCHANGED <<batchPc, batchOp, fileIds, batchI, results, requests>>
  /\ UNCHANGED <<partVars, scanVars, resVars, pipeVars, progVars, raceVars, rerunVars>>

\* Promise.all resolved: the statuses are tallied; then the delay and the
\* next batch, or the return
BatchTally ==
  /\ batchPc = "await"
  /\ AllSettled(outstanding)
  /\ results' = TallyAll(batchOp, results, batchResults, Statuses)
  /\ IF batchI + BatchSize < Len(fileIds)
       THEN /\ batchI' = batchI + BatchSize
            /\ batchPc' = "issue"
       ELSE /\ batchI' = batchI
            /\ batchPc' = "returned"
  /\ UNCHANGED <<batchOp, fileIds, outstanding, batchResults, requests>>
  /\ UNCHANGED <<partVars, scanVars, resVars, pipeVars, progVars, raceVars, rerunVars>>

InitBatch ==
  /\ batchPc = "call"
  /\ batchOp \in {"delete", "trash"}
  /\ \E n \in 0..MaxTargets : fileIds = [k \in 1..n |-> k]
  /\ batchI = 0
  /\ outstanding = <<>>
  /\ batchResults = NoResults
  /\ results = EmptyTally
  /\ requests = <<>>
  /\ PartIdle
  /\ ScanIdle
  /\ ResIdle
  /\ PipeIdle
  /\ ProgIdle
  /\ RaceIdle
  /\ RerunIdle

NextBatch == BatchEnter \/ BatchIssue \/ RequestSettles \/ BatchTally

SpecBatch == InitBatch /\ [][NextBatch]_vars

-----------------------------------------------------------------------------
(* handleDuplicates: the prompts, the staleness refresh and the strategies *)

SubFolder == 100

ParentIds == {RootFolder, SubFolder}

\* what the user may type at a y/n prompt
Answers == {"y", "Y", "n", ""}

\* answer.toLowerCase() === 'y'
IsYes(answer) == answer \in {"y", "Y"}

\* only a typed 'n' cancels
CancelledOnlyOnNo(confirm) == confirm \in {"n"}

\* if (confirm.toLowerCase() !== 'y') { ... cancelled ... return }
Cancelled(confirm) == ~IsYes(confirm)

\* what the user may type at 'Select option (1-5)'
Options == {"1", "2", "3", "4", "5", "9"}

\* every instance of the group is collected
NonFirstFromZero(instances) == instances

\* for (let i = 1; i < instances.length; i++): the records after the first
NonFirst(instances) == Tail(instances)

\* for (const fileName in duplicateMap) if (instances.length > 1) ...: the
\* records a strategy acts on, with the group's name, in iteration order
RECURSIVE TargetRecords(_)
TargetRecords(map) ==
  IF map = <<>> THEN <<>>
  ELSE LET e == Head(map)
           picked == IF Len(e.instances) > 1 THEN NonFirst(e.instances) ELSE <<>>
       IN [k \in 1..Len(picked) |-> [fileName |-> e.name, instance |-> picked[k]]]
            \o TargetRecords(Tail(map))

\* the collecting loops stop one record early
TargetIdsButLast(map) ==
  LET t == TargetRecords(map) IN [k \in 1..(Len(t) - 1) |-> t[k].instance.id]

\* fileIdsToDelete / fileIdsToTrash
TargetIds(map) ==
  LET t == TargetRecords(map) IN [k \in 1..Len(t) |-> t[k].instance.id]

\* the object a strategy returns when it sends nothing
NothingDone(op) ==
  IF op = "trash"
    THEN [trashedCount |-> 0, permissionErrors |-> 0, notFoundErrors |-> 0]
    ELSE [deletedCount |-> 0, permissionErrors |-> 0, notFoundErrors |-> 0]

\* answers of drive.files.get during the refresh; "timeout" is the 10 s timer
CheckAnswers == {"found", "File not found", "other error", "timeout"}

\* the answers that leave the record unverified: the request's error is
\* rethrown to the catch, or the 10 s timer wins the race
Unverified == {"other error", "timeout"}

\* only a record the store confirmed is kept
KeepsOnlyFound(answer) == answer = "found"

\* fileExists, or the catch that keeps a record it could not verify
KeepsRecord(answer) == answer # "File not found"

\* the record is put in front of the group
Unshift(list, inst) == <<inst>> \o list

\* refreshedMap[fileName].push(instance)
Push(list, inst) == Append(list, inst)

\* getParentFolderName: the folder's name, or `Unknown Folder (id)`
ParentFolderName(folderId, getSucceeds) ==
  IF getSucceeds
    THEN [known |-> TRUE, text |-> IF folderId = RootFolder THEN "root" ELSE FolderName]
    ELSE [known |-> FALSE, text |-> "Unknown Folder"]

ResolveFrame == <<partVars, scanVars, pipeVars, progVars, raceVars, rerunVars>>

\* 'Would you like to verify all files exist before proceeding? (y/n)'
\* the returned map is dropped and the strategies get the map of the scan
MapKeptStale(before, refreshed) == before

\* duplicateMap = await refreshDuplicateMap(drive, duplicateMap)
MapAfterRefresh(before, refreshed) == refreshed

AnswerVerify ==
  /\ resPc = "askVerify"
  /\ \E ans \in Answers :
       IF IsYes(ans)
         THEN /\ resPc' = "refreshing"
              /\ refreshG' = 1
         ELSE /\ resPc' = "askHandle"
              /\ refreshG' = refreshG
  /\ refreshedMap' = <<>>
  /\ refreshK' = 0
  /\ UNCHANGED <<handledMap, foundAbsent, keptUnverified, strategy, skipVerification, confirmAnswer,
                 renameTargets, renamedCount, strategyResult>>
  /\ UNCHANGED <<batchVars, ResolveFrame>>

\* refreshDuplicateMap: one instance is verified; the group's entry is
\* created before its first instance and removed after its last one when
\* nothing was kept; after the last group the refreshed map is returned and
\* replaces handleDuplicates' duplicateMap
RefreshCheck ==
  /\ resPc = "refreshing"
  /\ refreshG <= Len(handledMap)
  /\ \E answer \in CheckAnswers :
       LET entry == handledMap[refreshG]
           inst == entry.instances[refreshK + 1]
           started == IF refreshK = 0
                        THEN Append(refreshedMap, [name |-> entry.name, instances |-> <<>>])
                        ELSE refreshedMap
           pushed == IF KeepsRecord(answer)
                       THEN [started EXCEPT ![Len(started)].instances = Push(@, inst)]
                       ELSE started
           lastOfGroup == refreshK + 1 = Len(entry.instances)
           closed == IF lastOfGroup /\ pushed[Len(pushed)].instances = <<>>
                       THEN Pop(pushed)
                       ELSE pushed
       IN /\ refreshedMap' = closed
          /\ foundAbsent' = IF answer = "File not found"
                              THEN foundAbsent \cup {inst.id}
                              ELSE foundAbsent
          /\ keptUnverified' = IF answer \in Unverified
                                 THEN keptUnverified \cup {inst.id}
                                 ELSE keptUnverified
          /\ IF ~lastOfGroup
               THEN /\ refreshK' = refreshK + 1
                    /\ UNCHANGED <<refreshG, handledMap, resPc>>
               ELSE /\ refreshK' = 0
                    /\ refreshG' = refreshG + 1
                    /\ IF refreshG = Len(handledMap)
                         THEN /\ handledMap' = MapAfterRefresh(handledMap, closed)
                              /\ resPc' = "askHandle"
                         ELSE UNCHANGED <<handledMap, resPc>>
  /\ UNCHANGED <<strategy, skipVerification, confirmAnswer, renameTargets,
                 renamedCount, strategyResult>>
  /\ UNCHANGED <<batchVars, ResolveFrame>>

\* refreshDuplicateMap: the 5 minute limit is passed when the next group is
\* about to start; the loop breaks and the partial map is returned
RefreshTimesOut ==
  /\ resPc = "refreshing"
  /\ refreshK = 0
  /\ refreshG > 1
  /\ refreshG <= Len(handledMap)
  /\ handledMap' = MapAfterRefresh(handledMap, refreshedMap)
  /\ resPc' = "askHandle"
  /\ UNCHANGED <<refreshedMap, refreshG, refreshK, foundAbsent, keptUnverified, strategy,
                 skipVerification, confirmAnswer, renameTargets, renamedCount,
                 strategyResult>>
  /\ UNCHANGED <<batchVars, ResolveFrame>>

\* 'Would you like to handle duplicate files? (y/n)'
AnswerHandle ==
  /\ resPc = "askHandle"
  /\ \E ans \in Answers :
       resPc' = IF IsYes(ans) THEN "askAction" ELSE "done"
  /\ UNCHANGED <<handledMap, refreshedMap, refreshG, refreshK, foundAbsent, keptUnverified, strategy,
                 skipVerification, confirmAnswer, renameTargets, renamedCount,
                 strategyResult>>
  /\ UNCHANGED <<batchVars, ResolveFrame>>

\* 'Select option (1-5)': the switch up to the strategy's first prompt
ChooseAction ==
  /\ resPc = "askAction"
  /\ \E action \in Options :
       /\ strategy' = action
       /\ CASE action = "2" ->
                 \* the 'Skip verification ...' prompt comes first
                 /\ resPc' = "askSkipVerify"
                 /\ UNCHANGED <<renameTargets, strategyResult, batchOp, fileIds>>
            [] action = "3" ->
                 \* renameDuplicates
                 /\ renameTargets' = TargetRecords(handledMap)
                 /\ resPc' = IF TargetRecords(handledMap) = <<>> THEN "done" ELSE "renaming"
                 /\ UNCHANGED <<strategyResult, batchOp, fileIds>>
            [] action = "4" ->
                 \* trashDuplicatesExceptFirst up to its confirmation prompt
                 /\ batchOp' = "trash"
                 /\ fileIds' = TargetIds(handledMap)
                 /\ IF TargetIds(handledMap) = <<>>
                      THEN /\ strategyResult' = NothingDone("trash")
                           /\ resPc' = "done"
                      ELSE /\ resPc' = "confirm"
                           /\ UNCHANGED strategyResult
                 /\ UNCHANGED renameTargets
            [] OTHER ->
                 \* '1': deleteOlderDuplicates has an empty body; '5' and
                 \* anything else: no action taken
                 /\ resPc' = "done"
                 /\ UNCHANGED <<renameTargets, strategyResult, batchOp, fileIds>>
  /\ UNCHANGED <<handledMap, refreshedMap, refreshG, refreshK, foundAbsent, keptUnverified,
                 skipVerification, confirmAnswer, renamedCount>>
  /\ UNCHANGED <<batchPc, batchI, outstanding, batchResults, results, requests>>
  /\ UNCHANGED ResolveFrame

\* 'Skip verification and directly delete duplicates? (y/n)', then
\* deleteAllDuplicatesExceptFirst up to its confirmation prompt
AnswerSkipVerify ==
  /\ resPc = "askSkipVerify"
  /\ \E ans \in Answers :
       /\ skipVerification' = IsYes(ans)
       /\ batchOp' = "delete"
       /\ fileIds' = TargetIds(handledMap)
       /\ IF TargetIds(handledMap) = <<>>
            THEN /\ strategyResult' = NothingDone("delete")
                 /\ resPc' = "done"
                 /\ UNCHANGED batchPc
            ELSE IF IsYes(ans)
              THEN /\ resPc' = "inBatch"
                   /\ batchPc' = "call"
                   /\ UNCHANGED strategyResult
              ELSE /\ resPc' = "confirm"
                   /\ UNCHANGED <<strategyResult, batchPc>>
  /\ UNCHANGED <<handledMap, refreshedMap, refreshG, refreshK, foundAbsent, keptUnverified, strategy,
                 confirmAnswer, renameTargets, renamedCount>>
  /\ UNCHANGED <<batchI, outstanding, batchResults, results, requests>>
  /\ UNCHANGED ResolveFrame

\* the WARNING prompt 'Do you want to continue? (y/n)' of the delete and
\* the trash strategy
AnswerConfirm ==
  /\ resPc = "confirm"
  /\ \E ans \in Answers :
       /\ confirmAnswer' = ans
       /\ IF Cancelled(ans)
            THEN /\ strategyResult' = NothingDone(batchOp)
                 /\ resPc' = "done"
                 /\ UNCHANGED batchPc
            ELSE /\ resPc' = "inBatch"
                 /\ batchPc' = "call"
                 /\ UNCHANGED strategyResult
  /\ UNCHANGED <<handledMap, refreshedMap, refreshG, refreshK, foundAbsent, keptUnverified, strategy,
                 skipVerification, renameTargets, renamedCount>>
  /\ UNCHANGED <<batchOp, fileIds, batchI, outstanding, batchResults, results, requests>>
  /\ UNCHANGED ResolveFrame

\* the batch function returned: the strategy returns its results
StrategyReturns ==
  /\ resPc = "inBatch"
  /\ batchPc = "returned"
  /\ strategyResult' = results
  /\ resPc' = "done"
  /\ UNCHANGED <<handledMap, refreshedMap, refreshG, refreshK, foundAbsent, keptUnverified, strategy,
                 skipVerification, confirmAnswer, renameTargets, renamedCount>>
  /\ UNCHANGED <<batchVars, ResolveFrame>>

\* renameDuplicates: one record; the parent's name is fetched, the rename is
\* requested, an error is caught and logged
RenameNext ==
  /\ resPc = "renaming"
  /\ renameTargets # <<>>
  /\ \E getSucceeds \in BOOLEAN, updateSucceeds \in BOOLEAN :
       LET t == Head(renameTargets)
           parentFolder == ParentFolderName(t.instance.parentId, getSucceeds)
       IN /\ requests' = Append(requests,
               [op |-> "rename", id |-> t.instance.id,
                newName |-> [fileName |-> t.fileName, parentFolder |-> parentFolder]])
          /\ renamedCount' = IF updateSucceeds THEN renamedCount + 1 ELSE renamedCount
  /\ renameTargets' = Tail(renameTargets)
  /\ resPc' = IF Tail(renameTargets) = <<>> THEN "done" ELSE "renaming"
  /\ UNCHANGED <<handledMap, refreshedMap, refreshG, refreshK, foundAbsent, keptUnverified, strategy,
                 skipVerification, confirmAnswer, strategyResult>>
  /\ UNCHANGED <<batchPc, batchOp, fileIds, batchI, outstanding, batchResults, results>>
  /\ UNCHANGED ResolveFrame

\* the maps scanGoogleDriveForDuplicates can hand over: built from distinct
\* file records, at least one name occurring twice
ScannedRecordLists ==
  UNION {{[k \in 1..m |-> [id |-> k, name |-> nm[k], parentId |-> pa[k]]] :
            nm \in [1..m -> FileNames], pa \in [1..m -> ParentIds]} : m \in 2..MaxFiles}

InitResolve ==
  /\ \E recs \in ScannedRecordLists :
       /\ Len(BuildFileMap(recs).duplicates) > 0
       /\ duplicateMap = ReturnedMap(BuildFileMap(recs))
  /\ handledMap = duplicateMap
  /\ driveTree = <<>>
  /\ scanStack = <<>>
  /\ scanFiles = <<>>
  /\ scanPc = "returnedMap"
  /\ failedFolders = {}
  /\ pageSplit = FALSE
  /\ resPc = "askVerify"
  /\ refreshedMap = <<>>
  /\ refreshG = 0
  /\ refreshK = 0
  /\ foundAbsent = {}
  /\ keptUnverified = {}
  /\ strategy = "none"
  /\ skipVerification = FALSE
  /\ confirmAnswer = "unasked"
  /\ renameTargets = <<>>
  /\ renamedCount = 0
  /\ strategyResult = NothingDone("delete")
  /\ PartIdle
  /\ BatchIdle
  /\ PipeIdle
  /\ ProgIdle
  /\ RaceIdle
  /\ RerunIdle

NextResolve ==
  \/ AnswerVerify \/ RefreshCheck \/ RefreshTimesOut \/ AnswerHandle
  \/ ChooseAction \/ AnswerSkipVerify \/ AnswerConfirm
  \/ BatchEnter \/ BatchIssue \/ RequestSettles \/ BatchTally \/ StrategyReturns
  \/ RenameNext

SpecResolve == InitResolve /\ [][NextResolve]_vars

-----------------------------------------------------------------------------
(* Properties of the resolver (SpecResolve) *)

\* ids of the records at index 0 of the groups of a map
FirstIds(map) == {map[k].instances[1].id : k \in 1..Len(map)}

Destructive(request) == request.op \in {"delete", "trash"}

DestructiveSent == \E k \in 1..Len(requests) : Destructive(requests[k])

\* C3: under every strategy, with or without a staleness refresh before it,
\* the record at index 0 of each group handed to the strategy is never the
\* target of a delete, trash or rename request.
C3_FirstNeverTargeted ==
  \A k \in 1..Len(requests) : requests[k].id \notin FirstIds(handledMap)

\* a finished run whose refresh dropped the first record of a group, so that
\* another record became its first, and whose strategy then sent requests
C3_Witness ==
  /\ resPc = "done"
  /\ requests # <<>>
  /\ foundAbsent # {}
  /\ FirstIds(handledMap) \ FirstIds(duplicateMap) # {}

-----------------------------------------------------------------------------
(* Properties of the batch functions (SpecBatch) *)

RECURSIVE SumFields(_, _)
SumFields(rec, fields) ==
  IF fields = {} THEN 0
  ELSE LET f == CHOOSE x \in fields : TRUE
       IN rec[f] + SumFields(rec, fields \ {f})

\* the sum of the counts the returned tally carries
TallySum(rec) == SumFields(rec, DOMAIN rec)

\* C5: the tally a batch mutation returns has counts that sum to the number
\* of targeted ids, whatever the mix of outcomes.
C5_TallySumsToTargets ==
  batchPc = "returned" => TallySum(results) = Len(fileIds)

\* the statuses the tally has a counter for in both functions
CountedStatuses == {"success", "notFound", "permissionDenied"}

Refreshed == refreshG > 0 /\ resPc # "refreshing"

\* the group of the name in the map handed to the refresh
InputGroup(nm) == duplicateMap[EntryOf(duplicateMap, nm)].instances

\* the groups the refresh went through before it returned
GroupsReached == 1..Min(refreshG - 1, Len(duplicateMap))

\* the record is in the group of its name in the map in hand
StillListed(nm, inst) ==
  /\ HasName(handledMap, nm)
  /\ \E j \in 1..Len(handledMap[EntryOf(handledMap, nm)].instances) :
       handledMap[EntryOf(handledMap, nm)].instances[j] = inst

\* C24: after a refresh every group of the refreshed map has at least 2
\* records.  Stated for the groups that had at least 2 records before.
C24_RefreshedGroupsHaveTwo ==
  Refreshed =>
    \A k \in 1..Len(handledMap) :
      Len(InputGroup(handledMap[k].name)) >= 2 => Len(handledMap[k].instances) >= 2

\* C25 as stated: a record leaves the map only when the store answered that
\* the file was not found.
C25_RemovedOnlyWhenNotFound ==
  Refreshed =>
    \A k \in 1..Len(duplicateMap) : \A j \in 1..Len(duplicateMap[k].instances) :
      LET inst == duplicateMap[k].instances[j] IN
        inst.id \notin foundAbsent => StillListed(duplicateMap[k].name, inst)

\* C25 amended: in the groups the refresh went through, a record whose check
\* timed out or failed is kept in its group, and a record is removed only
\* when the store answered that the file was not found; the groups the
\* refresh did not reach within its 5 minutes are left out of the result.
C25_CheckedRecordsKeptUnlessNotFound ==
  Refreshed =>
    \A k \in GroupsReached : \A j \in 1..Len(duplicateMap[k].instances) :
      LET inst == duplicateMap[k].instances[j] IN
        /\ inst.id \in keptUnverified => StillListed(duplicateMap[k].name, inst)
        /\ inst.id \notin foundAbsent => StillListed(duplicateMap[k].name, inst)
        /\ inst.id \in foundAbsent => ~StillListed(duplicateMap[k].name, inst)

\* a refresh in which one check timed out or failed and another answered
\* 'File not found'
C25_Witness ==
  /\ Refreshed
  /\ foundAbsent # {}
  /\ \E k \in 1..Len(handledMap) : \E j \in 1..Len(handledMap[k].instances) :
       handledMap[k].instances[j].id \in keptUnverified

\* the ids of the records after the first of every group of the map in hand
NonFirstIds ==
  UNION {{handledMap[k].instances[j].id : j \in 2..Len(handledMap[k].instances)} :
           k \in 1..Len(handledMap)}

\* the delete or the trash strategy went ahead: the user confirmed, or chose
\* to skip the verification of the delete strategy
WentAhead ==
  /\ strategy \in {"2", "4"}
  /\ confirmAnswer \in {"y", "Y"} \/ (strategy = "2" /\ skipVerification)

\* C26: once the delete (or trash) strategy went ahead and has returned, the
\* requests issued are the ids of all non-first records of all groups, each
\* id once and no other request.
C26_ExactlyNonFirstRequested ==
  (WentAhead /\ resPc = "done") =>
    /\ {requests[k].id : k \in 1..Len(requests)} = NonFirstIds
    /\ Len(requests) = Cardinality(NonFirstIds)
    /\ \A k \in 1..Len(requests) :
         requests[k].op = (IF strategy = "2" THEN "delete" ELSE "trash")

\* the map {x: [1, 2, 3]} under the delete strategy: requests for 2 and 3
C26_Witness ==
  /\ strategy = "2"
  /\ resPc = "done"
  /\ Len(handledMap) = 1
  /\ Len(handledMap[1].instances) = 3
  /\ [k \in 1..3 |-> handledMap[1].instances[k].id] = <<1, 2, 3>>
  /\ {requests[k].id : k \in 1..Len(requests)} = {2, 3}

\* C38: when the refresh was accepted, the strategy chosen afterwards works
\* on the refreshed map: every delete, trash or rename request targets a
\* record after the first of a group of the refreshed map, none targets a
\* record the refresh found absent, and none targets a record that the
\* refresh made the first of its group.
C38_StrategyUsesRefreshedMap ==
  Refreshed =>
    \A k \in 1..Len(requests) :
      /\ requests[k].id \notin foundAbsent
      /\ requests[k].id \notin FirstIds(handledMap) \ FirstIds(duplicateMap)
      /\ requests[k].id \in NonFirstIds

\* the refresh found the first record of a group absent, the second record
\* took its place, and the strategy sent a request for the third
C38_Witness ==
  /\ Refreshed
  /\ resPc = "done"
  /\ strategy \in {"2", "3", "4"}
  /\ foundAbsent \cap FirstIds(duplicateMap) # {}
  /\ FirstIds(handledMap) \ FirstIds(duplicateMap) # {}
  /\ \E k \in 1..Len(requests) : requests[k].id \in NonFirstIds

\* a is b with some elements left out
RECURSIVE IsSubseq(_, _)
IsSubseq(a, b) ==
  IF a = <<>> THEN TRUE
  ELSE IF b = <<>> THEN FALSE
  ELSE IF Head(a) = Head(b) THEN IsSubseq(Tail(a), Tail(b))
  ELSE IsSubseq(a, Tail(b))

NamesOf(map) == [k \in 1..Len(map) |-> map[k].name]

\* every name of the map is a name of the input map, and each group is its
\* input group with some records left out
Shrunk(map) ==
  /\ IsSubseq(NamesOf(map), NamesOf(duplicateMap))
  /\ \A k \in 1..Len(map) :
       /\ HasName(duplicateMap, map[k].name)
       /\ IsSubseq(map[k].instances, InputGroup(map[k].name))

\* C30: the refresh never grows the map: while it runs and when it has
\* returned, every name is a name of the input map and every group is an
\* order-preserving subsequence of its input group.
C30_RefreshNeverGrows ==
  /\ resPc = "refreshing" => Shrunk(refreshedMap)
  /\ Refreshed => Shrunk(handledMap)

\* a refresh that left out one record of a group of three
C30_Witness ==
  /\ Refreshed
  /\ \E k \in 1..Len(handledMap) :
       /\ Len(handledMap[k].instances) = 2
       /\ Len(InputGroup(handledMap[k].name)) = 3
       /\ handledMap[k].instances[1] = InputGroup(handledMap[k].name)[1]
       /\ handledMap[k].instances[2] = InputGroup(handledMap[k].name)[3]

-----------------------------------------------------------------------------
(* The per-item pipeline: processFile of s3-transcode-upload.mjs, one       *)
(* action per awaited call, under the driver loop of transcodeFile.         *)
(* A source key is a record [folder, stem, suffix, ext] standing for the    *)
(* text folder/stem+suffix.ext .                                            *)

MaxItems == 2          \* longest share handed to the driver loop
MaxFaults == 1         \* most failures injected in a run over several items
MaxItemFaults == 2     \* most failures injected in a run over a single item

SourceKeys ==
  { [folder |-> "camera-1", stem |-> "a", suffix |-> "", ext |-> "mov"],
    [folder |-> "videos", stem |-> "a", suffix |-> "", ext |-> "mov"] }

\* keyPath + '_converted.mp4', keyPath the key up to its last '.'
ConvertedKey(key) ==
  [folder |-> key.folder, stem |-> key.stem, suffix |-> "_converted", ext |-> "mp4"]

\* path.basename
BaseName(path) == [stem |-> path.stem, suffix |-> path.suffix, ext |-> path.ext]

CameraFolders == {"camera-1"}

\* filePath.match(/camera-(\d+)/), 'other-videos' when there is no match
extractCameraId(filePath) ==
  IF filePath.folder \in CameraFolders THEN filePath.folder ELSE "other-videos"

LocalPaths == SourceKeys \cup {ConvertedKey(k) : k \in SourceKeys}

WorkLists == UNION {[1..n -> SourceKeys] : n \in 1..MaxItems}

\* a look-up that never finds the folder
FoldersNamedNone(folders, folderName) == {}

\* files.list with name, parent and trashed=false: the matching records
FoldersNamed(folders, folderName) == {f \in folders : f.name = folderName}

\* the listing asks the root folder instead of the folder it was given
FilesNamedUnderRoot(files, folderId, fileName) ==
  {g \in files : g.parent = RootFolder /\ g.name = fileName}

FilesNamed(files, folderId, fileName) ==
  {g \in files : g.parent = folderId /\ g.name = fileName}

\* fileMetadata of uploadToGoogleDrive(drive, filePath, folderId)
fileMetadata(filePath, folderId) ==
  [name |-> BaseName(filePath), parent |-> folderId]

\* the store as it is, for the ledger: a file called fileName lies in a
\* folder called folderName under the root
ExistsInCategoryFolder(folders, files, folderName, fileName) ==
  \E f \in folders, g \in files :
    f.name = folderName /\ g.parent = f.id /\ g.name = fileName

\* failures are injected sparingly in long runs, more freely in short ones
FaultBudget ==
  IF Len(keyListToProcess) = 1 THEN MaxItemFaults ELSE MaxFaults

\* the environment may inject n more failures
Faulty(n) ==
  /\ faults + n <= FaultBudget
  /\ faults' = faults + n

Cost(ok) == IF ok THEN 0 ELSE 1

HeaderLine == [kind |-> "header"]

KeyLine(filePath) == [kind |-> "key", key |-> filePath]

\* initErrorLog: the header is written only when the file is missing; a
\* write failure is caught and leaves the file missing
initErrorLog(log, ok) ==
  IF log.exists \/ ~ok THEN log
  ELSE [exists |-> TRUE, lines |-> <<HeaderLine>>]

\* a logError that opens the file for writing, not for appending
logErrorTruncates(log, filePath, headerOk, appendOk) ==
  [exists |-> TRUE, lines |-> <<HeaderLine, KeyLine(filePath)>>]

\* logError, write by write: writeFileSync(header) when the file is missing,
\* then appendFileSync(path); the first write that throws ends the call in
\* the catch, which only prints
logErrorWrites(log, filePath, headerOk, appendOk) ==
  IF ~log.exists /\ ~headerOk THEN log
  ELSE LET opened == IF log.exists THEN log
                     ELSE [exists |-> TRUE, lines |-> <<HeaderLine>>]
       IN IF appendOk
            THEN [exists |-> TRUE, lines |-> opened.lines \o <<KeyLine(filePath)>>]
            ELSE opened

\* a logError that creates the file but forgets the appendFileSync
logErrorHeaderOnly(log, filePath, ok) ==
  IF ~ok THEN log
  ELSE [exists |-> TRUE,
        lines |-> (IF log.exists THEN log.lines ELSE <<HeaderLine>>)]

\* logError: header first when the file is missing, then the path; a write
\* failure is caught and leaves the file as it was
logError(log, filePath, ok) ==
  IF ~ok THEN log
  ELSE [exists |-> TRUE,
        lines |-> (IF log.exists THEN log.lines ELSE <<HeaderLine>>)
                    \o <<KeyLine(filePath)>>]

NoCode == -1           \* the event carries no exit code

\* ffmpeg has not ended
NoEnd == [event |-> "none", code |-> NoCode, reason |-> ""]

\* how the subprocess ends: 'close' with an exit code, or 'error' when it
\* could not be spawned
FFmpegEnds ==
  { [event |-> "close", code |-> 0, reason |-> ""],
    [event |-> "close", code |-> 1, reason |-> ""],
    [event |-> "error", code |-> NoCode, reason |-> "spawn ffmpeg ENOENT"] }

NotSettled == [state |-> "pending", message |-> NoEnd]

\* a monitor that resolves on every 'close', whatever the exit code
SettleOnAnyClose(end) ==
  IF end.event = "close"
    THEN [state |-> "resolved", message |-> NoEnd]
    ELSE [state |-> "rejected", message |-> end]

\* the promise of runFFmpegWithProgress: 'close' resolves it when code === 0
\* and rejects it with "FFmpeg exited with code <code>" otherwise; 'error'
\* rejects it with "FFmpeg process error: <err.message>"
Settle(end) ==
  IF end.event = "close" /\ end.code = 0
    THEN [state |-> "resolved", message |-> NoEnd]
    ELSE [state |-> "rejected", message |-> end]

\* the ledger of a call, closed with the way the call ended
Closed(how, ledger) ==
  [key |-> ledger.key, inS3 |-> ledger.inS3, inDrive |-> ledger.inDrive,
   hadDrive |-> ledger.hadDrive, filesBefore |-> ledger.filesBefore,
   foldersBefore |-> ledger.foldersBefore, calls |-> ledger.calls,
   failed |-> ledger.failed, publishedTo |-> ledger.publishedTo,
   ffmpegEnd |-> ledger.ffmpegEnd, settled |-> ledger.settled,
   source |-> ledger.source,
   localBefore |-> ledger.localBefore, logBefore |-> ledger.logBefore,
   end |-> how, filesAfter |-> driveFiles', foldersAfter |-> driveFolders',
   localAfter |-> localFiles', logAfter |-> errorLog',
   downloaded |-> downloadedFile, transcoded |-> transcodeSuccess]

\* processFile returns: the ledger is closed and the loop moves on
Return(how, ledger) ==
  /\ itemEnds' = Append(itemEnds, Closed(how, ledger))
  /\ item' = NoItem
  /\ loopI' = loopI + 1
  /\ pc' = "idle"

Called(ledger, op) == [ledger EXCEPT !.calls = @ \cup {op}]

Failed(ledger, op) == [ledger EXCEPT !.failed = @ \cup {op}]

\* the ledger after a logError call whose write did or did not succeed
Logged(ledger, ok) == IF ok THEN ledger ELSE Failed(ledger, "log")

DriverFrame == <<fileContent, totalInstances, currentInstance, allFiles,
                 keyListToProcess, outcome>>

OtherParts == <<scanVars, batchVars, resVars, progVars, raceVars, rerunVars>>

Continue(next, ledger) ==
  /\ pc' = next
  /\ item' = ledger
  /\ UNCHANGED <<itemEnds, loopI>>

\* the loop calls processFile(client, drive, keyListToProcess[i], ...)
StartItem ==
  /\ outcome = "running"
  /\ pc = "idle"
  /\ loopI < Len(keyListToProcess)
  /\ LET key == keyListToProcess[loopI + 1] IN
       /\ inputKey' = key
       /\ processedKeys' = Append(processedKeys, key)
       /\ item' = [key |-> key,
                   inS3 |-> ConvertedKey(key) \in bucket,
                   inDrive |-> ExistsInCategoryFolder(driveFolders, driveFiles,
                                 extractCameraId(key), BaseName(ConvertedKey(key))),
                   hadDrive |-> drive,
                   filesBefore |-> driveFiles, foldersBefore |-> driveFolders,
                   localBefore |-> localFiles, logBefore |-> errorLog,
                   calls |-> {}, failed |-> {}, publishedTo |-> NoFolder,
                   ffmpegEnd |-> NoEnd, settled |-> NotSettled,
                   source |-> "none"]
  /\ pc' = "headObject"
  /\ cameraFolderId' = NoFolder
  /\ downloadedFile' = FALSE
  /\ transcodeSuccess' = FALSE
  /\ UNCHANGED <<DriverFrame, loopI, OtherParts>>
  /\ UNCHANGED <<drive, bucket, driveFolders, driveFiles, nextId, localFiles,
                 errorLog, itemEnds, faults>>

\* checkFileExistsInS3(client, BUCKET, convertedKey): found -> skip and
\* return; NotFound -> go on; any other error is rethrown and lands in
\* processFile's outer catch, which logs and returns
CheckS3 ==
  /\ pc = "headObject"
  /\ UNCHANGED <<driveFiles, driveFolders, localFiles>>
  /\ \/ /\ ConvertedKey(inputKey) \in bucket
        /\ Faulty(0)
        /\ UNCHANGED errorLog
        /\ Return("skippedS3", Called(item, "headObject"))
     \/ /\ ConvertedKey(inputKey) \notin bucket
        /\ Faulty(0)
        /\ UNCHANGED errorLog
        /\ Continue(IF drive THEN "findFolder1" ELSE "download",
                    Called(item, "headObject"))
     \/ \E logOk \in BOOLEAN :
          /\ Faulty(1 + Cost(logOk))
          /\ errorLog' = logError(errorLog, inputKey, logOk)
          /\ Return("error",
                    Logged(Failed(Called(item, "headObject"), "headObject"), logOk))
  /\ UNCHANGED <<DriverFrame, processedKeys, OtherParts>>
  /\ UNCHANGED <<drive, bucket, nextId, inputKey, cameraFolderId,
                 downloadedFile, transcodeSuccess>>

\* findOrCreateFolder is called twice: before the Drive check (stage 1) and
\* before the upload (stage 2)
Stage == IF pc \in {"findFolder1", "createFolder1"} THEN 1 ELSE 2

\* findOrCreateFolder has returned id (NoFolder for null) to processFile.
\* Stage 1: a folder id leads to checkFileExistsInDrive, null to the download.
\* Stage 2: a folder id leads to the upload into it, null to logError and
\* the upload into the root folder.
FolderAnswered(stage, id, ledger, cost) ==
  /\ cameraFolderId' = id
  /\ IF stage = 2 /\ id = NoFolder
       THEN \E logOk \in BOOLEAN :
              /\ Faulty(cost + Cost(logOk))
              /\ errorLog' = logError(errorLog, inputKey, logOk)
              /\ Continue("uploadRoot", Logged(ledger, logOk))
       ELSE /\ Faulty(cost)
            /\ UNCHANGED errorLog
            /\ Continue(IF stage = 1
                          THEN (IF id # NoFolder THEN "checkDrive" ELSE "download")
                          ELSE "upload",
                        ledger)

\* findOrCreateFolder, the files.list call: files[0].id when a folder of
\* that name is there, else on to files.create; an error returns null
FindFolder ==
  /\ pc \in {"findFolder1", "findFolder2"}
  /\ LET found == FoldersNamed(driveFolders, extractCameraId(inputKey)) IN
       \/ \E f \in found : FolderAnswered(Stage, f.id, item, 0)
       \/ /\ found = {}
          /\ Faulty(0)
          /\ Continue(IF Stage = 1 THEN "createFolder1" ELSE "createFolder2", item)
          /\ UNCHANGED <<cameraFolderId, errorLog>>
       \/ FolderAnswered(Stage, NoFolder, Failed(item, "findFolder"), 1)
  /\ UNCHANGED <<DriverFrame, processedKeys, OtherParts>>
  /\ UNCHANGED <<drive, bucket, driveFolders, driveFiles, nextId, localFiles,
                 inputKey, downloadedFile, transcodeSuccess>>

\* findOrCreateFolder, the files.create call
CreateFolder ==
  /\ pc \in {"createFolder1", "createFolder2"}
  /\ \/ /\ driveFolders' = driveFolders
                \cup {[id |-> nextId, name |-> extractCameraId(inputKey)]}
        /\ nextId' = nextId + 1
        /\ FolderAnswered(Stage, nextId, Called(item, "createFolder"), 0)
     \/ /\ UNCHANGED <<driveFolders, nextId>>
        /\ FolderAnswered(Stage, NoFolder,
                          Failed(Called(item, "createFolder"), "createFolder"), 1)
  /\ UNCHANGED <<DriverFrame, processedKeys, OtherParts>>
  /\ UNCHANGED <<drive, bucket, driveFiles, localFiles, inputKey,
                 downloadedFile, transcodeSuccess>>

\* a check whose catch answers true
ExistsUnlessListed(files, folderId, fileName, listed) ==
  IF listed THEN FilesNamed(files, folderId, fileName) # {} ELSE TRUE

\* checkFileExistsInDrive: response.data.files.length > 0 when files.list
\* answered, and false from the catch when it threw
checkFileExistsInDrive(files, folderId, fileName, listed) ==
  IF listed THEN FilesNamed(files, folderId, fileName) # {} ELSE FALSE

\* const fileExists = await checkFileExistsInDrive(drive, cameraFolderId,
\* fileName); if (fileExists) { ... return; }
CheckDrive ==
  /\ pc = "checkDrive"
  /\ \E listed \in BOOLEAN :
       /\ Faulty(Cost(listed))
       /\ Continue(IF checkFileExistsInDrive(driveFiles, cameraFolderId,
                        BaseName(ConvertedKey(inputKey)), listed)
                     THEN "skip" ELSE "download",
                   IF listed THEN item ELSE Failed(item, "checkDrive"))
  /\ UNCHANGED <<DriverFrame, processedKeys, OtherParts>>
  /\ UNCHANGED <<drive, bucket, driveFolders, driveFiles, nextId, localFiles,
                 errorLog, inputKey, cameraFolderId, downloadedFile,
                 transcodeSuccess>>

\* an existsSync that never finds the file
NeverPresent(path) == FALSE

\* existsSync(path)
Present(path) == localFiles[path] # "absent"

\* the skip branch: local input and output are unlinked when present, the
\* key is written to the error log, processFile returns.  An unlink that
\* throws lands in the outer catch, which logs and returns.
SkipExisting ==
  /\ pc = "skip"
  /\ UNCHANGED <<driveFiles, driveFolders>>
  /\ \E logOk \in BOOLEAN :
       /\ errorLog' = logError(errorLog, inputKey, logOk)
       /\ \/ /\ Faulty(Cost(logOk))
             /\ localFiles' = [localFiles EXCEPT ![inputKey] = "absent",
                                                 ![ConvertedKey(inputKey)] = "absent"]
             /\ Return("skippedDrive", Logged(item, logOk))
          \/ /\ Present(inputKey)
             /\ Faulty(1 + Cost(logOk))
             /\ UNCHANGED localFiles
             /\ Return("error", Logged(Failed(item, "unlinkInput"), logOk))
          \/ /\ Present(ConvertedKey(inputKey))
             /\ Faulty(1 + Cost(logOk))
             /\ localFiles' = [localFiles EXCEPT ![inputKey] = "absent"]
             /\ Return("error", Logged(Failed(item, "unlinkOutput"), logOk))
  /\ UNCHANGED <<DriverFrame, processedKeys, OtherParts>>
  /\ UNCHANGED <<drive, bucket, nextId, inputKey, cameraFolderId,
                 downloadedFile, transcodeSuccess>>

\* the download: skipped when INPUT_KEY is on the local disk; GetObject and
\* streamToFile otherwise.  A failed GetObject or mkdir leaves no file, a
\* failed write stream leaves what was written; both are logged and the
\* call returns.  An error of the source stream settles nothing: the write
\* stream neither finishes nor fails and processFile never resumes.
Download ==
  /\ pc = "download"
  /\ UNCHANGED <<driveFiles, driveFolders>>
  /\ \/ /\ Present(inputKey)
        /\ Faulty(0)
        /\ Continue("transcode", item)
        /\ UNCHANGED <<localFiles, errorLog, downloadedFile>>
     \/ /\ ~Present(inputKey)
        /\ Faulty(0)
        /\ localFiles' = [localFiles EXCEPT ![inputKey] = "whole"]
        /\ downloadedFile' = TRUE
        /\ Continue("transcode", Called(item, "getObject"))
        /\ UNCHANGED errorLog
     \/ /\ ~Present(inputKey)
        /\ \E left \in {"absent", "partial"}, logOk \in BOOLEAN :
             /\ Faulty(1 + Cost(logOk))
             /\ localFiles' = [localFiles EXCEPT ![inputKey] = left]
             /\ errorLog' = logError(errorLog, inputKey, logOk)
             /\ Return("downloadError",
                       Logged(Failed(Called(item, "getObject"), "getObject"), logOk))
        /\ UNCHANGED downloadedFile
     \/ /\ ~Present(inputKey)
        /\ Faulty(1)
        /\ localFiles' = [localFiles EXCEPT ![inputKey] = "partial"]
        /\ Continue("stuck", Failed(Called(item, "getObject"), "sourceStream"))
        /\ UNCHANGED <<errorLog, downloadedFile>>
  /\ UNCHANGED <<DriverFrame, processedKeys, OtherParts>>
  /\ UNCHANGED <<drive, bucket, nextId, inputKey, cameraFolderId,
                 transcodeSuccess>>

\* the ledger after the await of runFFmpegWithProgress, run on the local
\* file at INPUT_KEY as it is
Awaited(ledger, end) ==
  [Called(ledger, "ffmpeg") EXCEPT !.ffmpegEnd = end, !.settled = Settle(end),
                                   !.source = localFiles[inputKey]]

\* await runFFmpegWithProgress(INPUT_KEY, convertedKey, useCPU): when the
\* promise resolves, transcodeSuccess is set and the upload follows; when
\* it rejects, the catch logs and the upload is not attempted
Transcode ==
  /\ pc = "transcode"
  /\ \E end \in FFmpegEnds :
       \/ /\ Settle(end).state = "resolved"
          /\ Faulty(0)
          /\ localFiles' = [localFiles EXCEPT ![ConvertedKey(inputKey)] = "whole"]
          /\ transcodeSuccess' = TRUE
          /\ Continue(IF drive THEN "findFolder2" ELSE "cleanup",
                      Awaited(item, end))
          /\ UNCHANGED errorLog
       \/ /\ Settle(end).state = "rejected"
          /\ \E left \in {localFiles[ConvertedKey(inputKey)], "partial"},
                logOk \in BOOLEAN :
               /\ Faulty(1 + Cost(logOk))
               /\ localFiles' = [localFiles EXCEPT ![ConvertedKey(inputKey)] = left]
               /\ errorLog' = logError(errorLog, inputKey, logOk)
               /\ Continue("cleanup",
                           Logged(Failed(Awaited(item, end), "ffmpeg"), logOk))
          /\ UNCHANGED transcodeSuccess
  /\ UNCHANGED <<DriverFrame, processedKeys, OtherParts>>
  /\ UNCHANGED <<drive, bucket, driveFolders, driveFiles, nextId, inputKey,
                 cameraFolderId, downloadedFile>>

\* uploadToGoogleDrive(drive, convertedKey, folder): the file is created
\* under the name path.basename(convertedKey); an error is caught inside
\* and null is returned, which processFile does not look at
Upload ==
  /\ pc \in {"upload", "uploadRoot"}
  /\ LET folderId == IF pc = "upload" THEN cameraFolderId ELSE RootFolder
         metadata == fileMetadata(ConvertedKey(inputKey), folderId)
     IN
       \/ /\ Faulty(0)
          /\ driveFiles' = driveFiles
                \cup {[id |-> nextId, parent |-> metadata.parent,
                       name |-> metadata.name]}
          /\ nextId' = nextId + 1
          /\ Continue("cleanup",
                      [Called(item, "upload") EXCEPT !.publishedTo = folderId])
       \/ /\ Faulty(1)
          /\ UNCHANGED <<driveFiles, nextId>>
          /\ Continue("cleanup", Failed(Called(item, "upload"), "upload"))
  /\ UNCHANGED <<DriverFrame, processedKeys, OtherParts>>
  /\ UNCHANGED <<drive, bucket, driveFolders, localFiles, errorLog, inputKey,
                 cameraFolderId, downloadedFile, transcodeSuccess>>

\* the input is unlinked whatever became of the item
DeletesInputAlways(downloaded, transcoded) == TRUE

\* if (downloadedFile || transcodeSuccess)
DeletesInput(downloaded, transcoded) == downloaded \/ transcoded

\* the finally block: the input is unlinked when it was downloaded or the
\* transcode succeeded, the output whenever it is there; an unlink that
\* throws skips the rest and is logged.  Then processFile returns.
Cleanup ==
  /\ pc = "cleanup"
  /\ UNCHANGED <<driveFiles, driveFolders>>
  /\ LET how == IF transcodeSuccess THEN "completed" ELSE "transcodeError"
         dropInput == DeletesInput(downloadedFile, transcodeSuccess)
                        /\ Present(inputKey)
         inputGone == IF dropInput
                        THEN [localFiles EXCEPT ![inputKey] = "absent"]
                        ELSE localFiles
     IN \/ /\ Faulty(0)
           /\ localFiles' = [inputGone EXCEPT ![ConvertedKey(inputKey)] = "absent"]
           /\ UNCHANGED errorLog
           /\ Return(how, item)
        \/ /\ dropInput
           /\ UNCHANGED localFiles
           /\ \E logOk \in BOOLEAN :
                /\ Faulty(1 + Cost(logOk))
                /\ errorLog' = logError(errorLog, inputKey, logOk)
                /\ Return(how, Logged(Failed(item, "unlinkInput"), logOk))
        \/ /\ Present(ConvertedKey(inputKey))
           /\ localFiles' = inputGone
           /\ \E logOk \in BOOLEAN :
                /\ Faulty(1 + Cost(logOk))
                /\ errorLog' = logError(errorLog, inputKey, logOk)
                /\ Return(how, Logged(Failed(item, "unlinkOutput"), logOk))
  /\ UNCHANGED <<DriverFrame, processedKeys, OtherParts>>
  /\ UNCHANGED <<drive, bucket, nextId, inputKey, cameraFolderId,
                 downloadedFile, transcodeSuccess>>

Categories == {extractCameraId(key) : key \in SourceKeys}

\* the ids of the category folders that exist before the run
FolderIdOf ==
  CHOOSE ids \in [Categories -> 1..Cardinality(Categories)] :
    \A c, d \in Categories : c # d => ids[c] # ids[d]

\* the converted file name of a source key of the category
ConvertedNameIn(c) ==
  BaseName(ConvertedKey(CHOOSE key \in SourceKeys : extractCameraId(key) = c))

\* transcodeFile has initialised the error log, set up Drive (drive is null
\* when that failed), read and sharded the list, and is about to enter the
\* loop.  Each category folder is missing, empty, or holds the converted
\* file (one folder per name, as sequential runs leave it); local leftovers
\* of an earlier run may lie on the disk; the error log is missing when
\* initErrorLog could not write it, which counts as an injected failure.
InitStores(nameOf) ==
  /\ keyListToProcess \in WorkLists
  /\ allFiles = keyListToProcess
  /\ fileContent = <<>>
  /\ totalInstances = 1
  /\ currentInstance = 0
  /\ loopI = 0
  /\ processedKeys = <<>>
  /\ bucket \in SUBSET {ConvertedKey(key) : key \in SourceKeys}
  /\ \E layout \in [Categories -> {"none", "empty", "file"}] :
       /\ driveFolders = {[id |-> FolderIdOf[c], name |-> c] :
                            c \in {d \in Categories : layout[d] # "none"}}
       /\ driveFiles = {[id |-> Cardinality(Categories) + FolderIdOf[c],
                         parent |-> FolderIdOf[c],
                         name |-> nameOf[c]] :
                          c \in {d \in Categories : layout[d] = "file"}}
  /\ nextId = 2 * Cardinality(Categories) + 1
  /\ localFiles \in [LocalPaths -> {"absent", "whole"}]
  /\ \A path \in LocalPaths :
       path \notin {keyListToProcess[1], ConvertedKey(keyListToProcess[1])}
         => localFiles[path] = "absent"
  /\ errorLog \in {[exists |-> TRUE, lines |-> <<HeaderLine>>],
                   [exists |-> FALSE, lines |-> <<>>]}
  /\ faults = Cost(errorLog.exists)
  /\ pc = "idle"
  /\ inputKey = <<>>
  /\ cameraFolderId = NoFolder
  /\ downloadedFile = FALSE
  /\ transcodeSuccess = FALSE
  /\ item = NoItem
  /\ itemEnds = <<>>
  /\ ScanIdle
  /\ BatchIdle
  /\ ResIdle
  /\ ProgIdle
  /\ RaceIdle

\* the stores as the transcoding pipeline meets them: the Drive holds
\* converted files
InitItems == InitStores([c \in Categories |-> ConvertedNameIn(c)])

\* the loop of transcodeFile is about to start, with or without a Drive client
Init ==
  /\ InitItems
  /\ outcome = "running"
  /\ drive \in BOOLEAN
  /\ RerunIdle

Next ==
  \/ StartItem \/ CheckS3 \/ FindFolder \/ CreateFolder \/ CheckDrive
  \/ SkipExisting \/ Download \/ Transcode \/ Upload \/ Cleanup
  \/ FinishRun

Spec == Init /\ [][Next]_vars

\* ---------------------------------------------------------------------
\* Termination and re-run: the process is killed while an item is being
\* processed and the pipeline is started again with the same work list.
\* ---------------------------------------------------------------------

MaxRestarts == 1       \* most terminations followed by a re-run

\* what a kill leaves on the disk: a download or a transcode that was under
\* way leaves its file missing, partly written, or (the transcode
\* overwriting with -y) as it was; any other step leaves the disk alone
LeftByKill ==
  CASE pc = "download" /\ ~Present(inputKey) ->
         {[localFiles EXCEPT ![inputKey] = left] : left \in {"absent", "partial"}}
    [] pc = "transcode" ->
         {[localFiles EXCEPT ![ConvertedKey(inputKey)] = left] :
            left \in {localFiles[ConvertedKey(inputKey)], "partial"}}
    [] OTHER -> {localFiles}

\* the process is terminated inside processFile; transcodeFile is run again:
\* initErrorLog writes the header when the log is missing, the list is read
\* and sharded as before, and the loop starts at its first key.  The bucket,
\* the Drive, the disk and the error log are as the killed run left them.
Terminate ==
  /\ outcome = "running"
  /\ pc # "idle"
  /\ restarts < MaxRestarts
  /\ restarts' = restarts + 1
  /\ UNCHANGED <<driveFolders, driveFiles>>
  /\ localFiles' \in LeftByKill
  /\ \E initOk \in BOOLEAN :
       /\ errorLog.exists => initOk
       /\ Faulty(Cost(initOk))
       /\ errorLog' = initErrorLog(errorLog, initOk)
  /\ itemEnds' = Append(itemEnds, Closed("killed", item))
  /\ item' = NoItem
  /\ pc' = "idle"
  /\ loopI' = 0
  /\ processedKeys' = <<>>
  /\ UNCHANGED <<DriverFrame, scanVars, batchVars, resVars, progVars, raceVars>>
  /\ UNCHANGED <<drive, bucket, nextId, inputKey, cameraFolderId,
                 downloadedFile, transcodeSuccess, logCalls, scanForDuplicates>>

\* the first run starts on a disk without leftovers and has one key to do
InitRerun ==
  /\ Init
  /\ Len(keyListToProcess) = 1
  /\ \A path \in LocalPaths : localFiles[path] = "absent"

NextRerun == Next \/ Terminate

SpecRerun == InitRerun /\ [][NextRerun]_vars

-----------------------------------------------------------------------------
(* Properties of the per-item pipeline (Spec).  A finished call is read    *)
(* from its ledger: "skippedS3" and "skippedDrive" are the two skip         *)
(* returns (SkippedExisting), "completed" is the return after a successful  *)
(* transcode (Done), every other return is a failure.                       *)

SkipEnds == {"skippedS3", "skippedDrive"}

\* the requests that fetch, transcode or publish
WorkCalls == {"getObject", "ffmpeg", "upload"}

Finished == 1..Len(itemEnds)

\* the item was skipped and nothing was fetched, transcoded or published
SkippedUntouched(r) == r.end \in SkipEnds /\ r.calls \cap WorkCalls = {}

\* the operations the Drive side of the existence check consists of
DriveCheckSteps ==
  {"headObject", "findFolder", "checkDrive", "unlinkInput", "unlinkOutput"}

C2_RepeatIsNoOp ==
  \A i, j \in Finished :
    /\ i < j
    /\ itemEnds[i].key = itemEnds[j].key
    /\ itemEnds[i].end = "completed"
    /\ itemEnds[i].publishedTo # NoFolder
    /\ itemEnds[j].failed = {}
    => /\ SkippedUntouched(itemEnds[j])
       /\ itemEnds[j].filesAfter = itemEnds[j].filesBefore

\* the number of lines of the log that name the key
LinesFor(log, key) ==
  Cardinality({k \in 1..Len(log.lines) : log.lines[k] = KeyLine(key)})

\* the lines for its key that the call added to the error log
Appended(r) == LinesFor(r.logAfter, r.key) - LinesFor(r.logBefore, r.key)

\* the call returned neither through a skip nor after a successful transcode
EndsFailed(r) == r.end \notin SkipEnds \cup {"completed"}

\* the call in progress, if any, has seen one of these operations fail
InProgressFailed(ops) == pc # "idle" /\ item.failed \cap ops # {}

CleanupSteps == {"unlinkInput", "unlinkOutput"}

ThroughCleanup == {i \in Finished : itemEnds[i].end \in {"completed", "transcodeError"}}

\* C12: the cleanup deletes the local input only if it was fetched in this
\* call or the transcode succeeded; an input that lay on the disk before
\* the call and whose transcode failed is still there, untouched, when the
\* call ends.
C12_InputKeptUnlessFetchedOrTranscoded ==
  \A i \in ThroughCleanup :
    LET r == itemEnds[i] IN
      /\ (r.localBefore[r.key] # "absent" \/ r.downloaded)
           /\ r.localAfter[r.key] = "absent"
           => r.downloaded \/ r.transcoded
      /\ r.localBefore[r.key] # "absent" /\ r.end = "transcodeError"
           => r.localAfter[r.key] = r.localBefore[r.key]

\* a pre-existing input survived a failed transcode, and a fetched one was
\* deleted after a failed transcode
C12_Witness ==
  /\ \E i \in ThroughCleanup :
       /\ itemEnds[i].localBefore[itemEnds[i].key] = "whole"
       /\ itemEnds[i].end = "transcodeError"
       /\ itemEnds[i].localAfter[itemEnds[i].key] = "whole"

\* C13: once the transcode was run, successfully or not, the local output
\* is gone when the item ends, whether or not the publish and the deletion
\* of the input succeeded.  Stated for the calls in which the deletion of
\* the output itself did not fail.
C13_OutputAlwaysDeleted ==
  \A i \in Finished :
    "ffmpeg" \in itemEnds[i].calls /\ "unlinkOutput" \notin itemEnds[i].failed
      => itemEnds[i].localAfter[ConvertedKey(itemEnds[i].key)] = "absent"

\* C14: when the transcode succeeded and the upload fails, a line for the
\* item is appended to the error log, the item is not Failed and the
\* cleanup runs.  Stated for the calls whose log writes succeed.
C14_UploadFailureLogged ==
  \A i \in Finished :
    /\ itemEnds[i].transcoded
    /\ "upload" \in itemEnds[i].failed
    /\ "log" \notin itemEnds[i].failed
    => /\ Appended(itemEnds[i]) >= 1
       /\ itemEnds[i].end = "completed"

\* C15: a failed fetch is logged for the key, the item ends Failed with no
\* transcode and no upload, and the call returns so that the driver goes on.
\* Stated for the calls whose log writes succeed.
C15_FetchFailureContained ==
  /\ \A i \in Finished :
       "getObject" \in itemEnds[i].failed /\ "log" \notin itemEnds[i].failed
         => /\ Appended(itemEnds[i]) >= 1
            /\ EndsFailed(itemEnds[i])
            /\ itemEnds[i].calls \cap {"ffmpeg", "upload"} = {}
  /\ ~(InProgressFailed({"getObject", "sourceStream"}) /\ pc = "stuck")

\* C16: whatever fails while an item is processed, processFile returns and
\* the loop moves on: no call is left that can never return, and a run that
\* completed has attempted every item of the share.
C16_EveryItemAttempted ==
  /\ pc # "stuck"
  /\ outcome = "completed" => Len(itemEnds) = Len(keyListToProcess)

\* C17: at the end of a run an item has a line in the error log if and only
\* if it was neither published nor skipped as existing.  Stated per call,
\* for the runs that have Drive and whose log writes all succeed.
C17_LogListsExactlyIncomplete ==
  outcome = "completed" =>
    \A i \in Finished :
      itemEnds[i].hadDrive /\ "log" \notin itemEnds[i].failed =>
        (Appended(itemEnds[i]) > 0
           <=> ~(itemEnds[i].publishedTo # NoFolder \/ itemEnds[i].end \in SkipEnds))

\* the steps of processFile that lead to and make the upload
UploadSteps == {"findFolder2", "createFolder2", "upload", "uploadRoot"}

ExitedWithZero(end) == end.event = "close" /\ end.code = 0

\* C21: the upload of an item is issued only after its transcode subprocess
\* has exited, and only when it exited with code 0; on another exit code or
\* a spawn error the promise rejects with an error that carries the code or
\* the reason, and no upload is issued for the item.
C21_UploadOnlyAfterExitZero ==
  /\ pc \in UploadSteps => ExitedWithZero(item.ffmpegEnd)
  /\ \A i \in Finished :
       LET r == itemEnds[i] IN
         /\ "upload" \in r.calls => ExitedWithZero(r.ffmpegEnd)
         /\ r.ffmpegEnd # NoEnd /\ ~ExitedWithZero(r.ffmpegEnd) =>
              /\ r.settled.state = "rejected"
              /\ r.settled.message.code = r.ffmpegEnd.code
              /\ r.settled.message.reason = r.ffmpegEnd.reason
              /\ "upload" \notin r.calls
              /\ r.filesAfter = r.filesBefore

C21_Witness ==
  /\ \E i \in Finished : "upload" \in itemEnds[i].calls
  /\ \E i \in Finished :
       itemEnds[i].ffmpegEnd.event = "close" /\ itemEnds[i].ffmpegEnd.code = 1
  /\ Len(itemEnds) = 2

\* C27: whenever an item ends skipped as existing, found in the bucket or in
\* the Drive category folder, its local input copy and its local output
\* file are gone when the call returns.
C27_SkipLeavesNoLocalFiles ==
  \A i \in Finished :
    itemEnds[i].end \in SkipEnds =>
      /\ itemEnds[i].localAfter[itemEnds[i].key] = "absent"
      /\ itemEnds[i].localAfter[ConvertedKey(itemEnds[i].key)] = "absent"

\* the ledger of the call in progress after a step, closed or not
LedgerAfter == IF pc' = "idle" THEN itemEnds'[Len(itemEnds')] ELSE item'

\* C28: in the fetching stage a GetObject is issued for the item if and only
\* if no local file exists at the source-key path when the stage begins; an
\* existing local copy is left as it is and is the input of the transcode.
C28_FetchIffNoLocalCopy ==
  /\ [][pc = "download" =>
          /\ "getObject" \in LedgerAfter.calls <=> localFiles[inputKey] = "absent"
          /\ localFiles[inputKey] # "absent" =>
               pc' = "transcode" /\ localFiles' = localFiles]_vars
  /\ [](\A i \in Finished :
          "ffmpeg" \in itemEnds[i].calls /\ "getObject" \notin itemEnds[i].calls =>
            /\ itemEnds[i].localBefore[itemEnds[i].key] # "absent"
            /\ itemEnds[i].source = itemEnds[i].localBefore[itemEnds[i].key])

\* a run whose first item was transcoded from the copy on the disk and whose
\* second item was downloaded
C28_Witness ==
  /\ Len(itemEnds) = 2
  /\ "ffmpeg" \in itemEnds[1].calls
  /\ "getObject" \notin itemEnds[1].calls
  /\ itemEnds[1].localBefore[itemEnds[1].key] = "whole"
  /\ "getObject" \in itemEnds[2].calls
  /\ itemEnds[2].localBefore[itemEnds[2].key] = "absent"

\* the folders called by the category of the key
CategoryFolders(key) == {f \in driveFolders : f.name = extractCameraId(key)}

\* C31: findOrCreateFolder issues files.create only after files.list found no
\* folder of the name, so the sequential calls of one process create at most
\* one folder per name and every id they return is the id of that folder.
C31_OneFolderPerName ==
  /\ \A key \in SourceKeys : Cardinality(CategoryFolders(key)) <= 1
  /\ pc \in {"createFolder1", "createFolder2"} => CategoryFolders(inputKey) = {}
  /\ (pc \notin {"idle", "headObject"} /\ cameraFolderId # NoFolder) =>
       CategoryFolders(inputKey) = {[id |-> cameraFolderId,
                                     name |-> extractCameraId(inputKey)]}
  /\ \A i \in Finished :
       itemEnds[i].publishedTo \notin {NoFolder, RootFolder} =>
         [id |-> itemEnds[i].publishedTo, name |-> extractCameraId(itemEnds[i].key)]
           \in driveFolders

\* the first call for a category created its folder, the call before the
\* upload found it, and a later item of the category found it again
C31_Witness ==
  /\ Len(itemEnds) = 2
  /\ itemEnds[1].key = itemEnds[2].key
  /\ CategoryFolders(itemEnds[1].key) \cap itemEnds[1].foldersBefore = {}
  /\ "createFolder" \in itemEnds[1].calls
  /\ itemEnds[1].publishedTo \notin {NoFolder, RootFolder}
  /\ "createFolder" \notin itemEnds[2].calls
  /\ itemEnds[2].end = "skippedDrive"
  /\ Cardinality(CategoryFolders(itemEnds[1].key)) = 1

\* C32: during a batch mutation run at most BatchSize requests are pending at
\* any time, the requests sent so far are exactly those of the batches up to
\* the current one, and a step that sends requests starts from no pending
\* request: batch k+1 is sent only after every request of batch k has settled.
C32_BatchesDoNotOverlap ==
  /\ [](/\ Len(outstanding) <= BatchSize
        /\ batchPc = "await" =>
             /\ Len(requests) = Min(batchI + BatchSize, Len(fileIds))
             /\ Len(outstanding) <= Len(requests) - batchI
        /\ batchPc = "issue" => (outstanding = <<>> /\ Len(requests) = batchI))
  /\ [][Len(requests') > Len(requests) =>
          /\ outstanding = <<>>
          /\ Len(requests') - Len(requests) <= BatchSize]_vars

C32_Witness ==
  /\ batchPc = "await"
  /\ Len(fileIds) > BatchSize
  /\ batchI = BatchSize
  /\ Len(requests) = Len(fileIds)
  /\ outstanding # <<>>

\* ---------------------------------------------------------------------
\* The error log on its own: initErrorLog and logError called in any order,
\* with the file removed by hand in between.
\* ---------------------------------------------------------------------

MaxLogCalls == 4       \* most calls on the error log in one run

\* how a logError call's writes can go: both succeed, the header write throws
\* (only tried when the file is missing), or the append throws
LogWriteOutcomes(log) ==
  IF log.exists THEN {"ok", "appendFails"}
  ELSE {"ok", "headerFails", "appendFails"}

LogFrame == <<partVars, scanVars, batchVars, resVars, progVars, raceVars,
              restarts, scanForDuplicates, drive, bucket, driveFolders, driveFiles, nextId,
              localFiles, pc, inputKey, cameraFolderId, downloadedFile,
              transcodeSuccess, item, itemEnds>>

LogCall(op, key, how) ==
  [op |-> op, key |-> key, how |-> how, before |-> errorLog, after |-> errorLog']

\* transcodeFile's first statement
InitErrorLogCall ==
  /\ Len(logCalls) < MaxLogCalls
  /\ \E ok \in BOOLEAN :
       /\ errorLog.exists => ok
       /\ Faulty(Cost(ok))
       /\ errorLog' = initErrorLog(errorLog, ok)
       /\ logCalls' = Append(logCalls,
            LogCall("initErrorLog", <<>>, IF ok THEN "ok" ELSE "headerFails"))
  /\ UNCHANGED LogFrame

\* logError(message, filePath) from any catch of processFile
LogErrorCall ==
  /\ Len(logCalls) < MaxLogCalls
  /\ \E key \in SourceKeys, how \in LogWriteOutcomes(errorLog) :
       /\ Faulty(Cost(how = "ok"))
       /\ errorLog' = logErrorWrites(errorLog, key,
                                     how # "headerFails", how = "ok")
       /\ logCalls' = Append(logCalls, LogCall("logError", key, how))
  /\ UNCHANGED LogFrame

\* somebody removes error_transcode.txt while the run is under way
LogRemoved ==
  /\ Len(logCalls) < MaxLogCalls
  /\ errorLog.exists
  /\ errorLog' = [exists |-> FALSE, lines |-> <<>>]
  /\ logCalls' = Append(logCalls, LogCall("removed", <<>>, "ok"))
  /\ UNCHANGED <<LogFrame, faults>>

InitLog ==
  /\ PartIdle
  /\ ScanIdle
  /\ BatchIdle
  /\ ResIdle
  /\ PipeIdle
  /\ ProgIdle
  /\ RaceIdle
  /\ RerunIdle

NextLog == InitErrorLogCall \/ LogErrorCall \/ LogRemoved

SpecLog == InitLog /\ [][NextLog]_vars

\* what a call that found the file in place, or put it in place, builds on
OpenedLog(log) == IF log.exists THEN log.lines ELSE <<HeaderLine>>

\* the calls made while the file existed leave what was there in place
KeepsContent(c) ==
  c.before.exists =>
    /\ c.after.exists
    /\ Len(c.after.lines) >= Len(c.before.lines)
    /\ SubSeq(c.after.lines, 1, Len(c.before.lines)) = c.before.lines

C34_UploadsGoToCategoryFolder ==
  \A i \in Finished :
    LET r == itemEnds[i] IN
      \A f \in r.filesAfter \ r.filesBefore :
        [id |-> f.parent, name |-> extractCameraId(r.key)] \in r.foldersAfter

\* ---------------------------------------------------------------------
\* The run from its first statement: transcodeFile sets the Drive client up,
\* verifies the folder, and either scans for duplicates and returns or reads
\* the list and goes through it with processFile.
\* ---------------------------------------------------------------------

\* what scanGoogleDriveForDuplicates and handleDuplicates can leave of the
\* Drive's files: the deleting and trashing strategies remove files whose
\* name another file keeps (the resolver's own specification follows them
\* request by request)
ResolvedDrive(files) ==
  {kept \in SUBSET files : \A f \in files : \E g \in kept : g.name = f.name}

\* transcodeFile up to its loop.  setupGoogleDrive returns the client or null;
\* verifyGoogleDriveFolder returns true or false, and false drops the client;
\* `if (scanForDuplicates)` is inside `if (drive)` and ends with a return.
\* Whatever did not return goes on to read id_list.txt.
StartRun ==
  /\ outcome = "start"
  /\ \E client \in BOOLEAN, folderVerified \in BOOLEAN, listOk \in BOOLEAN :
       /\ folderVerified => client
       /\ drive' = folderVerified
       /\ IF client /\ scanForDuplicates
            THEN /\ listOk
                 /\ outcome' = "scanned"
                 /\ driveFiles' \in (IF folderVerified
                                       THEN ResolvedDrive(driveFiles)
                                       ELSE {driveFiles})
            ELSE /\ outcome' = (IF listOk THEN "running" ELSE "listReadError")
                 /\ driveFiles' = driveFiles
  /\ UNCHANGED <<fileContent, totalInstances, currentInstance, allFiles,
                 keyListToProcess, loopI, processedKeys>>
  /\ UNCHANGED <<bucket, driveFolders, nextId, localFiles, errorLog, pc,
                 inputKey, cameraFolderId, downloadedFile, transcodeSuccess,
                 item, itemEnds, faults>>
  /\ UNCHANGED <<scanVars, batchVars, resVars, progVars, raceVars, rerunVars>>

\* keyListToProcess holds what the filter of id_list.txt will yield; the run
\* has no client yet
InitRun ==
  /\ InitItems
  /\ outcome = "start"
  /\ drive = FALSE
  /\ restarts = 0
  /\ logCalls = <<>>
  /\ scanForDuplicates \in BOOLEAN

NextRun == StartRun \/ Next

SpecRun == InitRun /\ [][NextRun]_vars

\* C35: in a run started with the duplicate-scan toggle set no work item is
\* fetched, transcoded or published, whatever came of the Drive set-up and of
\* the folder verification.
C35_ScanModeProcessesNoItem ==
  scanForDuplicates =>
    /\ item # NoItem => item.calls \cap WorkCalls = {}
    /\ \A i \in Finished : itemEnds[i].calls \cap WorkCalls = {}

\* the pipeline with every step that can be taken eventually taken: a request
\* that is under way completes or fails, and the loop goes on
SpecLive == Init /\ [][Next]_vars /\ WF_vars(Next)

\* C36: when every request and the transcode subprocess eventually complete
\* or fail, every item of the partition reaches a terminal state and the
\* loop terminates after the last one.
C36_EveryRunTerminates ==
  <>(/\ outcome = "completed"
     /\ pc = "idle"
     /\ Len(itemEnds) = Len(keyListToProcess))

\* C37: a call that ends with a failed fetch, or that skips the item as
\* existing, leaves the Drive as it found it: no folder was created and no
\* file was uploaded on behalf of the item.
C37_FailedFetchLeavesDriveUnchanged ==
  \A i \in Finished :
    itemEnds[i].end \in SkipEnds \cup {"downloadError"} =>
      /\ itemEnds[i].foldersAfter = itemEnds[i].foldersBefore
      /\ itemEnds[i].filesAfter = itemEnds[i].filesBefore

\* the steps of the existence check on the Drive side
DriveCheckPcs == {"findFolder1", "createFolder1", "checkDrive"}

\* C39: a failure of the existence check on the Drive never makes an item
\* skipped.  A step of the check in which a request fails (the folder query,
\* the folder creation, or the listing of the item's name) is followed by the
\* download; the skip branch is entered only with no failed request behind it
\* and with the converted file in the item's category folder; and an item
\* that ended skipped was in the store whose check skipped it.
C39_FailedCheckNeverSkips ==
  /\ [](/\ pc = "skip" =>
             /\ item.failed = {}
             /\ ExistsInCategoryFolder(driveFolders, driveFiles,
                  extractCameraId(inputKey), BaseName(ConvertedKey(inputKey)))
        /\ \A i \in Finished :
             /\ itemEnds[i].end = "skippedDrive" =>
                  /\ itemEnds[i].inDrive
                  /\ itemEnds[i].failed \cap {"findFolder", "createFolder", "checkDrive"} = {}
             /\ itemEnds[i].end = "skippedS3" => itemEnds[i].inS3)
  /\ [][(pc \in DriveCheckPcs /\ faults' > faults) => pc' = "download"]_vars

\* the listing of the item's name failed although the file is in its
\* category folder, and the item went on to the download
C39_Witness ==
  /\ pc = "download"
  /\ "checkDrive" \in item.failed
  /\ item.inDrive

\* ---------------------------------------------------------------------
\* The transfer-only variant (s3-transcode-download-upload.mjs): processFile
\* looks the category folder up, checks the Drive, downloads, uploads the
\* source file itself and deletes the local copy.
\* ---------------------------------------------------------------------

\* the name the variant uploads under: path.basename(INPUT_KEY)
TransferNameIn(c) ==
  BaseName(CHOOSE key \in SourceKeys : extractCameraId(key) = c)

TransferFrame == <<DriverFrame, processedKeys, OtherParts, bucket, drive,
                   localFiles, inputKey, downloadedFile, transcodeSuccess>>

\* the loop of main calls processFile(client, drive, keyListToProcess[i], ...)
TransferStartItem ==
  /\ outcome = "running"
  /\ pc = "idle"
  /\ loopI < Len(keyListToProcess)
  /\ LET key == keyListToProcess[loopI + 1] IN
       /\ inputKey' = key
       /\ processedKeys' = Append(processedKeys, key)
       /\ item' = [key |-> key,
                   inS3 |-> FALSE,
                   inDrive |-> ExistsInCategoryFolder(driveFolders, driveFiles,
                                 extractCameraId(key), BaseName(key)),
                   hadDrive |-> drive,
                   filesBefore |-> driveFiles, foldersBefore |-> driveFolders,
                   localBefore |-> localFiles, logBefore |-> errorLog,
                   calls |-> {}, failed |-> {}, publishedTo |-> NoFolder,
                   ffmpegEnd |-> NoEnd, settled |-> NotSettled,
                   source |-> "none"]
  /\ pc' = "findFolder"
  /\ cameraFolderId' = NoFolder
  /\ UNCHANGED <<DriverFrame, loopI, OtherParts>>
  /\ UNCHANGED <<drive, bucket, driveFolders, driveFiles, nextId, localFiles,
                 errorLog, itemEnds, faults, downloadedFile, transcodeSuccess>>

\* findOrCreateFolder, the files.list call.  processFile calls it whether or
\* not there is a client: with drive null, drive.files throws inside the
\* try and the catch returns null.
TransferFindFolder ==
  /\ pc = "findFolder"
  /\ LET found == FoldersNamed(driveFolders, extractCameraId(inputKey)) IN
       \/ /\ drive
          /\ \E f \in found : cameraFolderId' = f.id
          /\ Faulty(0)
          /\ Continue("checkDrive", item)
       \/ /\ drive
          /\ found = {}
          /\ Faulty(0)
          /\ Continue("createFolder", item)
          /\ UNCHANGED cameraFolderId
       \/ /\ Faulty(IF drive THEN 1 ELSE 0)
          /\ cameraFolderId' = NoFolder
          /\ Continue("checkDrive", Failed(item, "findFolder"))
  /\ UNCHANGED <<TransferFrame, driveFolders, driveFiles, nextId, errorLog>>

\* findOrCreateFolder, the files.create call
TransferCreateFolder ==
  /\ pc = "createFolder"
  /\ \/ /\ driveFolders' = driveFolders
                \cup {[id |-> nextId, name |-> extractCameraId(inputKey)]}
        /\ nextId' = nextId + 1
        /\ cameraFolderId' = nextId
        /\ Faulty(0)
        /\ Continue("checkDrive", Called(item, "createFolder"))
     \/ /\ UNCHANGED <<driveFolders, nextId>>
        /\ cameraFolderId' = NoFolder
        /\ Faulty(1)
        /\ Continue("checkDrive", Failed(Called(item, "createFolder"), "createFolder"))
  /\ UNCHANGED <<TransferFrame, driveFiles, errorLog>>

\* `await checkFileExistsInDrive(drive, cameraFolderId, fileName)`: processFile
\* declares neither fileName nor convertedKey, and the module has no such
\* binding, so reading the argument throws a ReferenceError before the call
\* is made.  The outer catch logs the key and processFile returns; the
\* download, the upload and the clean-up below it are never reached.
TransferCheckDrive ==
  /\ pc = "checkDrive"
  /\ UNCHANGED <<driveFolders, driveFiles, TransferFrame, nextId, cameraFolderId>>
  /\ \E logOk \in BOOLEAN :
       /\ Faulty(Cost(logOk))
       /\ errorLog' = logError(errorLog, inputKey, logOk)
       /\ Return("error", Logged(Failed(item, "fileName"), logOk))

\* main has initialised the error log, set the client up (null when that
\* failed) and read the list; the Drive holds files under their source names
InitTransfer ==
  /\ InitStores([c \in Categories |-> TransferNameIn(c)])
  /\ outcome = "running"
  /\ drive \in BOOLEAN
  /\ RerunIdle

NextTransfer ==
  \/ TransferStartItem \/ TransferFindFolder \/ TransferCreateFolder
  \/ TransferCheckDrive \/ FinishRun

SpecTransfer == InitTransfer /\ [][NextTransfer]_vars

\* C40: in the transfer-only variant an item that is not in its Drive
\* category folder is fetched when there is no local copy, uploaded to the
\* category folder, its local copy is deleted, and nothing is written to the
\* error log for it.  Stated for the calls made with a Drive client in which
\* no request and no log write failed.
C40_TransferPublishesAndCleans ==
  \A i \in Finished :
    LET r == itemEnds[i] IN
      (/\ ~r.inDrive
       /\ r.hadDrive
       /\ r.failed \cap {"findFolder", "createFolder", "log"} = {}) =>
        /\ r.localBefore[r.key] = "absent" => "getObject" \in r.calls
        /\ ExistsInCategoryFolder(r.foldersAfter, r.filesAfter,
                                  extractCameraId(r.key), BaseName(r.key))
        /\ r.localAfter[r.key] = "absent"
        /\ r.logAfter = r.logBefore

\* C23: when the process is terminated during an item and the pipeline is
\* re-run, the transcoder is never run on, and nothing is published from, a
\* local source copy that an interrupted fetch left partly written.
C23_NoWorkOnPartialCopy ==
  \A i \in Finished :
    LET r == itemEnds[i] IN
      /\ "ffmpeg" \in r.calls => r.source = "whole"
      /\ r.publishedTo # NoFolder => r.source = "whole"

\* ---------------------------------------------------------------------
\* The transcode monitor: runFFmpegWithProgress.  Media times are counted
\* in 1/100 s and the speed multiplier in 1/100, the precision the parsed
\* patterns carry; the clock is Date.now() in ms.
\* ---------------------------------------------------------------------

MaxChunks == 3         \* most output chunks the subprocess emits in a run

NotParsed == -1        \* the pattern does not occur in the chunk

\* what a chunk's patterns yield
Durations == {NotParsed, 1000, 2000}    \* "Duration: hh:mm:ss.cc"
Times     == {NotParsed, 400, 2500}     \* "time=" / "out_time="
Speeds    == {NotParsed, 0, 50, 200}    \* "speed=N.NNx"

\* how far Date.now() has moved since it was last read; wall-clock time can
\* be set back
ClockSteps == {-500, 3, 1000, 1001}

\* now - lastProgressUpdate >= 1000
DueAtLeast(at, last) == at - last >= 1000

\* now - lastProgressUpdate > 1000
Due(at, last) == at - last > 1000

\* Math.round(x) for x = n / d with d > 0: the nearest integer, halves up
Round(n, d) == (2 * n + d) \div (2 * d)

\* Math.min(100, Math.round((currentTime / duration) * 100))
Progress(cur, dur) == Min(100, Round(cur * 100, dur))

\* the remaining time whatever the speed
RemainingOnly(remaining, sp) == [num |-> remaining, den |-> 1]

\* speed > 0 ? remainingTime / speed : remainingTime, as the fraction
\* num / den of 1/100 s
EstimatedTimeLeft(remaining, sp) ==
  IF sp > 0 THEN [num |-> remaining * 100, den |-> sp]
            ELSE [num |-> remaining, den |-> 1]

\* the values one console.log of the progress block prints
Snapshot(at, dur, cur, sp) ==
  [at          |-> at,
   duration    |-> dur,
   currentTime |-> cur,
   speed       |-> sp,
   progress    |-> Progress(cur, dur),
   eta         |-> EstimatedTimeLeft(dur - cur, sp)]

Parsed(old, found) == IF found = NotParsed THEN old ELSE found

\* "Update progress every second": the throttled emission
Emit(at, dur, cur, sp, ready) ==
  IF Due(at, lastProgressUpdate) /\ dur > 0 /\ ready
    THEN /\ lastProgressUpdate' = at
         /\ snapshots' = Append(snapshots, Snapshot(at, dur, cur, sp))
    ELSE UNCHANGED <<lastProgressUpdate, snapshots>>

\* spawn('ffmpeg', ffmpegArgs) and the locals of the promise executor
SpawnFFmpeg ==
  /\ ffmpegState = "idle"
  /\ ffmpegState' = "running"
  /\ \E step \in ClockSteps :
       /\ now' = now + step
       /\ lastProgressUpdate' = now + step
  /\ duration' = 0
  /\ currentTime' = 0
  /\ speed' = 0
  /\ UNCHANGED <<chunkCount, progressPipe, snapshots>>
  /\ UNCHANGED <<partVars, scanVars, batchVars, resVars, pipeVars,
                 raceVars, rerunVars>>

\* ffmpeg.stderr.on('data'): without the progress pipe it parses the
\* duration, the position and the speed and emits; with it, it parses the
\* duration and the speed only
OnStderrData ==
  /\ ffmpegState = "running"
  /\ chunkCount < MaxChunks
  /\ chunkCount' = chunkCount + 1
  /\ \E d \in Durations, t \in Times, sp \in Speeds, step \in ClockSteps :
       /\ duration' = IF duration = 0 THEN Parsed(duration, d) ELSE duration
       /\ speed' = Parsed(speed, sp)
       /\ IF progressPipe
            THEN /\ t = NotParsed
                 /\ step = 3
                 /\ UNCHANGED <<currentTime, now, lastProgressUpdate, snapshots>>
            ELSE /\ currentTime' = Parsed(currentTime, t)
                 /\ now' = now + step
                 /\ Emit(now', duration', currentTime', speed', currentTime' > 0)
  /\ UNCHANGED <<ffmpegState, progressPipe>>
  /\ UNCHANGED <<partVars, scanVars, batchVars, resVars, pipeVars,
                 raceVars, rerunVars>>

\* ffmpeg.stdout.on('data') with the progress pipe: a chunk that carries
\* "out_time=" sets the position and emits; any other chunk is ignored
OnStdoutData ==
  /\ ffmpegState = "running"
  /\ progressPipe
  /\ chunkCount < MaxChunks
  /\ chunkCount' = chunkCount + 1
  /\ \E t \in Times, step \in ClockSteps :
       IF t = NotParsed
         THEN /\ step = 3
              /\ UNCHANGED <<currentTime, now, lastProgressUpdate, snapshots>>
         ELSE /\ currentTime' = t
              /\ now' = now + step
              /\ Emit(now', duration, t, speed, TRUE)
  /\ UNCHANGED <<ffmpegState, duration, speed, progressPipe>>
  /\ UNCHANGED <<partVars, scanVars, batchVars, resVars, pipeVars,
                 raceVars, rerunVars>>

\* ffmpeg.on('close'): resolve on exit code 0, reject otherwise
OnClose ==
  /\ ffmpegState = "running"
  /\ \E end \in {e \in FFmpegEnds : e.event = "close"} :
       ffmpegState' = Settle(end).state
  /\ UNCHANGED <<now, lastProgressUpdate, duration, currentTime, speed,
                 chunkCount, progressPipe, snapshots>>
  /\ UNCHANGED <<partVars, scanVars, batchVars, resVars, pipeVars,
                 raceVars, rerunVars>>

\* ffmpeg.on('error'): reject
OnError ==
  /\ ffmpegState = "running"
  /\ \E end \in {e \in FFmpegEnds : e.event = "error"} :
       ffmpegState' = Settle(end).state
  /\ UNCHANGED <<now, lastProgressUpdate, duration, currentTime, speed,
                 chunkCount, progressPipe, snapshots>>
  /\ UNCHANGED <<partVars, scanVars, batchVars, resVars, pipeVars,
                 raceVars, rerunVars>>

InitProgress ==
  /\ ffmpegState = "idle"
  /\ now = 0
  /\ lastProgressUpdate = 0
  /\ duration = 0
  /\ currentTime = 0
  /\ speed = 0
  /\ chunkCount = 0
  /\ progressPipe \in BOOLEAN
  /\ snapshots = <<>>
  /\ PartIdle
  /\ ScanIdle
  /\ BatchIdle
  /\ ResIdle
  /\ PipeIdle
  /\ RaceIdle
  /\ RerunIdle

NextProgress ==
  \/ SpawnFFmpeg
  \/ OnStderrData
  \/ OnStdoutData
  \/ OnClose
  \/ OnError

SpecProgress == InitProgress /\ [][NextProgress]_vars

\* C19: within one invocation, any two consecutive progress snapshots are
\* more than 1000 ms apart by the clock the monitor reads, however many
\* chunks arrive in between.
C19_SnapshotsOverOneSecondApart ==
  \A k \in 1..(Len(snapshots) - 1) :
    snapshots[k + 1].at - snapshots[k].at > 1000

C19_Witness ==
  /\ Len(snapshots) >= 2
  /\ chunkCount > Len(snapshots)

\* C20: the estimated time left of every snapshot is (duration - elapsed) /
\* speed when the last parsed speed is above 0, and duration - elapsed when
\* the speed is 0.
C20_EstimateFollowsSpeed ==
  \A k \in 1..Len(snapshots) :
    LET snap == snapshots[k]
        remaining == snap.duration - snap.currentTime
    IN  /\ snap.eta.den > 0
        /\ snap.speed > 0 => snap.eta.num * snap.speed = remaining * 100 * snap.eta.den
        /\ snap.speed = 0 => snap.eta.num = remaining * snap.eta.den

C20_Witness ==
  /\ \E k \in 1..Len(snapshots) : snapshots[k].speed > 0 /\ snapshots[k].speed # 100
  /\ \E k \in 1..Len(snapshots) : snapshots[k].speed = 0

\* ---------------------------------------------------------------------
\* Two shard processes run processFile on the same source key at the same
\* time.  They share the bucket and the Drive; each works on its own disk,
\* and no call fails.  One action per awaited call of each shard.
\* ---------------------------------------------------------------------

ShardFrame == <<partVars, scanVars, batchVars, resVars, progVars, rerunVars,
                drive, bucket, localFiles, errorLog, pc, inputKey,
                cameraFolderId, downloadedFile, transcodeSuccess, item,
                itemEnds, faults>>

ShardGoes(p, next) == shardPc' = [shardPc EXCEPT ![p] = next]

\* checkFileExistsInS3 and the if (drive) that follows
ShardCheckS3(p) ==
  /\ shardPc[p] = "headObject"
  /\ ShardGoes(p, IF ConvertedKey(inputKey) \in bucket THEN "done" ELSE "findFolder1")
  /\ UNCHANGED <<shardFolderId, driveFolders, driveFiles, nextId, ShardFrame>>

\* findOrCreateFolder has returned id: on to the Drive check before the
\* download, to the upload after the transcode
ShardFolderAnswered(p, id) ==
  /\ shardFolderId' = [shardFolderId EXCEPT ![p] = id]
  /\ ShardGoes(p, IF shardPc[p] \in {"findFolder1", "createFolder1"}
                    THEN "checkDrive" ELSE "upload")

\* findOrCreateFolder, the files.list call
ShardFindFolder(p) ==
  /\ shardPc[p] \in {"findFolder1", "findFolder2"}
  /\ LET found == FoldersNamed(driveFolders, extractCameraId(inputKey)) IN
       \/ \E f \in found : ShardFolderAnswered(p, f.id)
       \/ /\ found = {}
          /\ ShardGoes(p, IF shardPc[p] = "findFolder1"
                            THEN "createFolder1" ELSE "createFolder2")
          /\ UNCHANGED shardFolderId
  /\ UNCHANGED <<driveFolders, driveFiles, nextId, ShardFrame>>

\* findOrCreateFolder, the files.create call
ShardCreateFolder(p) ==
  /\ shardPc[p] \in {"createFolder1", "createFolder2"}
  /\ driveFolders' = driveFolders
       \cup {[id |-> nextId, name |-> extractCameraId(inputKey)]}
  /\ nextId' = nextId + 1
  /\ ShardFolderAnswered(p, nextId)
  /\ UNCHANGED <<driveFiles, ShardFrame>>

\* checkFileExistsInDrive and the skip branch
ShardCheckDrive(p) ==
  /\ shardPc[p] = "checkDrive"
  /\ ShardGoes(p, IF FilesNamed(driveFiles, shardFolderId[p],
                                BaseName(ConvertedKey(inputKey))) # {}
                    THEN "done" ELSE "download")
  /\ UNCHANGED <<shardFolderId, driveFolders, driveFiles, nextId, ShardFrame>>

\* GetObject and streamToFile onto the shard's disk
ShardDownload(p) ==
  /\ shardPc[p] = "download"
  /\ ShardGoes(p, "transcode")
  /\ UNCHANGED <<shardFolderId, driveFolders, driveFiles, nextId, ShardFrame>>

\* await runFFmpegWithProgress on the shard's disk
ShardTranscode(p) ==
  /\ shardPc[p] = "transcode"
  /\ ShardGoes(p, "findFolder2")
  /\ UNCHANGED <<shardFolderId, driveFolders, driveFiles, nextId, ShardFrame>>

\* uploadToGoogleDrive(drive, convertedKey, cameraFolderId), then the
\* finally block on the shard's disk
ShardUpload(p) ==
  /\ shardPc[p] = "upload"
  /\ LET metadata == fileMetadata(ConvertedKey(inputKey), shardFolderId[p]) IN
       driveFiles' = driveFiles
         \cup {[id |-> nextId, parent |-> metadata.parent, name |-> metadata.name]}
  /\ nextId' = nextId + 1
  /\ ShardGoes(p, "done")
  /\ UNCHANGED <<shardFolderId, driveFolders, ShardFrame>>

\* both shards have been handed the same key and have entered processFile;
\* the category folder of the key is missing, empty, or holds the converted
\* file
InitRace ==
  /\ inputKey \in SourceKeys
  /\ drive = TRUE
  /\ bucket \in SUBSET {ConvertedKey(inputKey)}
  /\ \E layout \in [Categories -> {"none", "empty", "file"}] :
       /\ driveFolders = {[id |-> FolderIdOf[c], name |-> c] :
                            c \in {d \in Categories : layout[d] # "none"}}
       /\ driveFiles = {[id |-> Cardinality(Categories) + FolderIdOf[c],
                         parent |-> FolderIdOf[c],
                         name |-> ConvertedNameIn(c)] :
                          c \in {d \in Categories : layout[d] = "file"}}
  /\ nextId = 2 * Cardinality(Categories) + 1
  /\ shardPc = [p \in Shards |-> "headObject"]
  /\ shardFolderId = [p \in Shards |-> NoFolder]
  /\ localFiles = <<>>
  /\ errorLog = [exists |-> TRUE, lines |-> <<HeaderLine>>]
  /\ pc = "idle"
  /\ cameraFolderId = NoFolder
  /\ downloadedFile = FALSE
  /\ transcodeSuccess = FALSE
  /\ item = NoItem
  /\ itemEnds = <<>>
  /\ faults = 0
  /\ PartIdle
  /\ ScanIdle
  /\ BatchIdle
  /\ ResIdle
  /\ ProgIdle
  /\ RerunIdle

NextRace ==
  \E p \in Shards :
    \/ ShardCheckS3(p)
    \/ ShardFindFolder(p)
    \/ ShardCreateFolder(p)
    \/ ShardCheckDrive(p)
    \/ ShardDownload(p)
    \/ ShardTranscode(p)
    \/ ShardUpload(p)

SpecRace == InitRace /\ [][NextRace]_vars

\* the files called the converted name of the key that lie in a folder
\* called by the key's category
PublishedCopies ==
  {g \in driveFiles :
     /\ g.name = BaseName(ConvertedKey(inputKey))
     /\ \E f \in driveFolders :
          f.id = g.parent /\ f.name = extractCameraId(inputKey)}

\* C22: however the steps of two shards working on the same key interleave,
\* at most one file of the converted name is visible in the key's category.
C22_OnePublishedCopy == Cardinality(PublishedCopies) <= 1

====
